---------------------------- MODULE Spec2Model ----------------------------
(***************************************************************************)
(* Model of the ecs_ai_compliance pipeline: worker threads generate and    *)
(* evaluate batches of AI-usage events (src/src/ecs.rs), accumulate        *)
(* ComplianceMetrics (src/src/metrics.rs) and flush them on an unbounded   *)
(* channel; the main thread (src/src/main.rs) aggregates them, keeps the   *)
(* bounded historical series and feeds the dashboard thread.               *)
(***************************************************************************)
EXTENDS Integers, Sequences, FiniteSets, TLC

(***************************************************************************)
(* Bounds of the model.                                                    *)
(***************************************************************************)
\* Largest worker-thread count (args.threads) the configurations draw from.
MaxThreads == 2
\* The largest configured rate (args.rate) is 100 * MaxRateHundreds.
MaxRateHundreds == 2
\* Batches a lone worker may start before it only waits for the stop flag.
MaxCycles == 20
\* Reporting ticks the aggregator loop may perform.
MaxTicks == 2
\* Seeds the per-thread random source may start from.
MaxSeed == 0

(***************************************************************************)
(* Program constants.                                                      *)
(***************************************************************************)
EU_ACT_COMPLIANT == 1
GDPR_COMPLIANT == 2
INTERNAL_POLICY_COMPLIANT == 4
RISK_EU_ACT == 1
RISK_GDPR == 2
RISK_INTERNAL == 4
RISK_SENSITIVE_DATA == 8
RISK_PUBLIC_MODEL == 16
\* batch_count % 10 == 0 : the flush cadence of worker_thread.
FlushEvery == 10
\* historical series keep the last 30 data points.
HistoryLimit == 30
\* events_per_batch = events_per_thread / 100.
BatchDivisor == 100
\* default reporting interval in seconds (Args.interval).
DefaultInterval == 5

Idx == 0 .. 4
Workers == 1 .. MaxThreads
None == [none |-> TRUE]

(***************************************************************************)
(* Arithmetic helpers.                                                     *)
(***************************************************************************)
Min(a, b) == IF a < b THEN a ELSE b
Last(seq) == seq[Len(seq)]

RECURSIVE Gcd(_, _)
Gcd(a, b) == IF b = 0 THEN a ELSE Gcd(b, a % b)

\* The value of the f64 quotient n / d, kept as a fraction in lowest terms;
\* a zero divisor gives the IEEE results of the division.
Ratio(n, d) ==
    IF d = 0 THEN (IF n = 0 THEN <<"NaN">> ELSE <<"inf">>)
    ELSE LET g == Gcd(n, d) IN <<n \div g, d \div g>>

\* x & m and its companions for a single-bit mask m.
BitAnd(x, m) == IF (x \div m) % 2 = 1 THEN m ELSE 0
BitSet(x, m) == x + m - BitAnd(x, m)
BitClear(x, m) == x - BitAnd(x, m)

(***************************************************************************)
(* ComplianceMetrics (src/src/metrics.rs).                                 *)
(***************************************************************************)
Zero5 == [i \in Idx |-> 0]

\* ComplianceMetrics::default()
DefaultMetrics ==
    [ total_events |-> 0,
      eu_act_violations |-> 0,
      gdpr_violations |-> 0,
      internal_violations |-> 0,
      high_risk_count |-> 0,
      medium_risk_count |-> 0,
      low_risk_count |-> 0,
      service_counts |-> Zero5,
      vendor_counts |-> Zero5,
      department_counts |-> Zero5,
      risk_factor_counts |-> Zero5,
      avg_data_sensitivity |-> <<0, 1>>,
      total_data_sensitivity |-> 0,
      data_sensitivity_samples |-> 0,
      processing_rate |-> <<0, 1>>,
      historical_rates |-> << >>,
      historical_violations |-> << >> ]

\* The assignments of ComplianceMetrics::merge, applied to a copy of self.
MergeFields(self, other) ==
    LET samples == self.data_sensitivity_samples + other.data_sensitivity_samples
        sens == self.total_data_sensitivity + other.total_data_sensitivity
    IN [ self EXCEPT
           !.total_events = @ + other.total_events,
           !.eu_act_violations = @ + other.eu_act_violations,
           !.gdpr_violations = @ + other.gdpr_violations,
           !.internal_violations = @ + other.internal_violations,
           !.high_risk_count = @ + other.high_risk_count,
           !.medium_risk_count = @ + other.medium_risk_count,
           !.low_risk_count = @ + other.low_risk_count,
           !.service_counts = [i \in Idx |-> @[i] + other.service_counts[i]],
           !.vendor_counts = [i \in Idx |-> @[i] + other.vendor_counts[i]],
           !.department_counts = [i \in Idx |-> @[i] + other.department_counts[i]],
           !.risk_factor_counts = [i \in Idx |-> @[i] + other.risk_factor_counts[i]],
           !.total_data_sensitivity = sens,
           !.data_sensitivity_samples = samples,
           !.avg_data_sensitivity = IF samples > 0 THEN Ratio(sens, samples) ELSE @ ]

\* Faulty variants of merge: a tier count overwritten instead of summed, and
\* the historical series of self lost.
merge_OverwritesTier(self, other) ==
    [ MergeFields(self, other) EXCEPT !.high_risk_count = other.high_risk_count ]
merge_ResetsHistory(self, other) ==
    [ MergeFields(self, other) EXCEPT !.historical_rates = << >>,
                                      !.historical_violations = << >> ]

\* Faulty variant of merge: the risk-factor counters of other are not added.
merge_KeepsOwnFactors(self, other) ==
    [ MergeFields(self, other) EXCEPT
        !.risk_factor_counts = self.risk_factor_counts ]

\* Faulty variant of merge: the service distribution of the later snapshot
\* replaces the one held.
merge_LastServiceWins(self, other) ==
    [ MergeFields(self, other) EXCEPT !.service_counts = other.service_counts ]

\* ComplianceMetrics::merge(&mut self, other): the new value of self.
merge(self, other) == MergeFields(self, other)

\* Faulty variant of the bounded push: a full series refuses the new entry.
PushBounded_EvictsNewest(series, x) ==
    IF Len(series) >= HistoryLimit THEN series ELSE Append(series, x)

\* Vec::push followed by remove(0) when the length exceeds the limit.
PushBounded(series, x) ==
    LET pushed == Append(series, x)
    IN IF Len(pushed) > HistoryLimit THEN Tail(pushed) ELSE pushed

\* ComplianceMetrics::update_historical_data(&mut self, processed_since_last, elapsed)
update_historical_data(self, processed_since_last, elapsed) ==
    LET rate == Ratio(processed_since_last, elapsed)
    IN [ self EXCEPT
           !.processing_rate = rate,
           !.historical_rates = PushBounded(@, rate),
           !.historical_violations =
               PushBounded(@, << self.eu_act_violations,
                                 self.gdpr_violations,
                                 self.internal_violations >>) ]

\* ComplianceMetrics::compliance_percentage
\* Faulty variant: an empty snapshot is reported as 0 percent compliant.
compliance_percentage_ZeroWhenEmpty(self) ==
    IF self.total_events = 0 THEN <<0, 1>>
    ELSE LET violation_count == self.eu_act_violations + self.gdpr_violations
                                  + self.internal_violations
         IN Ratio(100 * (3 * self.total_events - violation_count),
                  3 * self.total_events)

compliance_percentage(self) ==
    IF self.total_events = 0 THEN <<100, 1>>
    ELSE LET violation_count == self.eu_act_violations + self.gdpr_violations
                                  + self.internal_violations
         IN Ratio(100 * (3 * self.total_events - violation_count),
                  3 * self.total_events)

\* ComplianceMetrics::risk_distribution
risk_distribution(self) ==
    IF self.total_events = 0 THEN << <<0, 1>>, <<0, 1>>, <<0, 1>> >>
    ELSE << Ratio(100 * self.high_risk_count, self.total_events),
            Ratio(100 * self.medium_risk_count, self.total_events),
            Ratio(100 * self.low_risk_count, self.total_events) >>

(***************************************************************************)
(* Event generation and the rule chain (src/src/ecs.rs).  A world is the   *)
(* sequence of its entities in spawn order.                                *)
(***************************************************************************)
\* The thread-local random source: a full-period congruential generator.
RngModulus == 256
RngNext(x) == (5 * x + 3) % RngModulus
\* rng.random_range(0..n) read from generator state x.
RandomRange(x, n) == (x * n) \div RngModulus

\* One generated (AIService, Usage) pair from four successive draws.
GenEvent(x) ==
    LET x1 == RngNext(x)
        x2 == RngNext(x1)
        x3 == RngNext(x2)
        x4 == RngNext(x3)
    IN [ name_idx |-> RandomRange(x1, 5),
         vendor_idx |-> RandomRange(x2, 5),
         department_idx |-> RandomRange(x3, 5),
         data_sensitivity |-> RandomRange(x4, 100) ]

RECURSIVE RngSkip(_, _)
RngSkip(x, n) == IF n = 0 THEN x ELSE RngSkip(RngNext(x), n - 1)

\* generate_ai_events(count) drawing from generator state x.
RECURSIVE generate_ai_events(_, _)
generate_ai_events(count, x) ==
    IF count = 0 THEN << >>
    ELSE <<GenEvent(x)>> \o generate_ai_events(count - 1, RngSkip(x, 4))

\* world.spawn((ai_service, usage, compliance)) with the all-compliant register.
Spawn(ev) ==
    [ name_idx |-> ev.name_idx,
      vendor_idx |-> ev.vendor_idx,
      department_idx |-> ev.department_idx,
      data_sensitivity |-> ev.data_sensitivity,
      flags |-> BitSet(BitSet(EU_ACT_COMPLIANT, GDPR_COMPLIANT),
                       INTERNAL_POLICY_COMPLIANT),
      risk |-> None ]

\* eu_ai_act_system on one entity.
\* Faulty variant: the compliant branch assigns the register instead of
\* setting one bit of it.
EuAiActEntity_AssignsRegister(e) ==
    LET is_high_risk == e.vendor_idx = 0
    IN IF is_high_risk /\ e.data_sensitivity > 70
       THEN [e EXCEPT !.flags = BitClear(@, EU_ACT_COMPLIANT)]
       ELSE [e EXCEPT !.flags = EU_ACT_COMPLIANT]

EuAiActEntity(e) ==
    LET is_high_risk == e.vendor_idx = 0
    IN IF is_high_risk /\ e.data_sensitivity > 70
       THEN [e EXCEPT !.flags = BitClear(@, EU_ACT_COMPLIANT)]
       ELSE [e EXCEPT !.flags = BitSet(@, EU_ACT_COMPLIANT)]

\* Faulty variant: the bit is set below 50 but never cleared.
GdprEntity_OnlySets(e) ==
    IF e.data_sensitivity < 50
    THEN [e EXCEPT !.flags = BitSet(@, GDPR_COMPLIANT)]
    ELSE e

\* gdpr_system on one entity.
GdprEntity(e) ==
    IF e.data_sensitivity < 50
    THEN [e EXCEPT !.flags = BitSet(@, GDPR_COMPLIANT)]
    ELSE [e EXCEPT !.flags = BitClear(@, GDPR_COMPLIANT)]

\* internal_policy_system on one entity.
InternalPolicyEntity(e) ==
    IF e.department_idx = 2
    THEN IF e.name_idx \in {1, 3}
         THEN [e EXCEPT !.flags = BitSet(@, INTERNAL_POLICY_COMPLIANT)]
         ELSE [e EXCEPT !.flags = BitClear(@, INTERNAL_POLICY_COMPLIANT)]
    ELSE [e EXCEPT !.flags = BitSet(@, INTERNAL_POLICY_COMPLIANT)]


\* Faulty variant: the score is not clamped.
AssessRisk_NoClamp(e) ==
    LET eu == BitAnd(e.flags, EU_ACT_COMPLIANT) = 0
        gd == BitAnd(e.flags, GDPR_COMPLIANT) = 0
        ip == BitAnd(e.flags, INTERNAL_POLICY_COMPLIANT) = 0
        sd == e.data_sensitivity > 80
        pm == e.vendor_idx = 0
    IN [ score |-> (IF eu THEN 40 ELSE 0) + (IF gd THEN 30 ELSE 0)
                   + (IF ip THEN 20 ELSE 0) + (IF sd THEN 10 ELSE 0)
                   + (IF pm THEN 5 ELSE 0),
         factor_flags |-> (IF eu THEN RISK_EU_ACT ELSE 0)
                          + (IF gd THEN RISK_GDPR ELSE 0)
                          + (IF ip THEN RISK_INTERNAL ELSE 0)
                          + (IF sd THEN RISK_SENSITIVE_DATA ELSE 0)
                          + (IF pm THEN RISK_PUBLIC_MODEL ELSE 0) ]

\* Faulty variant: an EU-Act violation contributes 30 instead of 40.
AssessRisk_EuWeighsThirty(e) ==
    LET eu == BitAnd(e.flags, EU_ACT_COMPLIANT) = 0
        gd == BitAnd(e.flags, GDPR_COMPLIANT) = 0
        ip == BitAnd(e.flags, INTERNAL_POLICY_COMPLIANT) = 0
        sd == e.data_sensitivity > 80
        pm == e.vendor_idx = 0
        score == (IF eu THEN 30 ELSE 0) + (IF gd THEN 30 ELSE 0)
                 + (IF ip THEN 20 ELSE 0) + (IF sd THEN 10 ELSE 0)
                 + (IF pm THEN 5 ELSE 0)
        factor_flags == (IF eu THEN RISK_EU_ACT ELSE 0)
                        + (IF gd THEN RISK_GDPR ELSE 0)
                        + (IF ip THEN RISK_INTERNAL ELSE 0)
                        + (IF sd THEN RISK_SENSITIVE_DATA ELSE 0)
                        + (IF pm THEN RISK_PUBLIC_MODEL ELSE 0)
    IN [ score |-> Min(score, 100), factor_flags |-> factor_flags ]

\* The RiskAssessment that risk_assessment_system computes for one entity.
AssessRisk(e) ==
    LET eu == BitAnd(e.flags, EU_ACT_COMPLIANT) = 0
        gd == BitAnd(e.flags, GDPR_COMPLIANT) = 0
        ip == BitAnd(e.flags, INTERNAL_POLICY_COMPLIANT) = 0
        sd == e.data_sensitivity > 80
        pm == e.vendor_idx = 0
        score == (IF eu THEN 40 ELSE 0) + (IF gd THEN 30 ELSE 0)
                 + (IF ip THEN 20 ELSE 0) + (IF sd THEN 10 ELSE 0)
                 + (IF pm THEN 5 ELSE 0)
        factor_flags == (IF eu THEN RISK_EU_ACT ELSE 0)
                        + (IF gd THEN RISK_GDPR ELSE 0)
                        + (IF ip THEN RISK_INTERNAL ELSE 0)
                        + (IF sd THEN RISK_SENSITIVE_DATA ELSE 0)
                        + (IF pm THEN RISK_PUBLIC_MODEL ELSE 0)
    IN [ score |-> Min(score, 100), factor_flags |-> factor_flags ]

\* Faulty variant: a fully compliant entity gets no assessment.
RiskEntity_SkipsCompliant(e) ==
    IF e.flags = EU_ACT_COMPLIANT + GDPR_COMPLIANT + INTERNAL_POLICY_COMPLIANT
    THEN e
    ELSE [e EXCEPT !.risk = AssessRisk(e)]

\* Faulty variant: the new score is added to the score already attached.
RiskEntity_AddsToPrior(e) ==
    IF e.risk = None
    THEN [e EXCEPT !.risk = AssessRisk(e)]
    ELSE [e EXCEPT !.risk = [ AssessRisk(e) EXCEPT
                                !.score = Min(@ + e.risk.score, 100) ]]

\* risk_assessment_system on one entity: insert_one replaces any prior value.
RiskEntity(e) == [e EXCEPT !.risk = AssessRisk(e)]

eu_ai_act_system(world) == [i \in DOMAIN world |-> EuAiActEntity(world[i])]
gdpr_system(world) == [i \in DOMAIN world |-> GdprEntity(world[i])]
internal_policy_system(world) == [i \in DOMAIN world |-> InternalPolicyEntity(world[i])]
risk_assessment_system(world) == [i \in DOMAIN world |-> RiskEntity(world[i])]

Bump(arr, i) == [arr EXCEPT ![i] = @ + 1]
BumpIf(arr, i, cond) == IF cond THEN Bump(arr, i) ELSE arr

\* Faulty variant: a score of exactly 30 counts as medium.
Tier_MediumFromThirty(score) ==
    IF score > 70 THEN "high" ELSE IF score >= 30 THEN "medium" ELSE "low"

\* if risk.score > 70 {high} else if risk.score > 30 {medium} else {low}
Tier(score) ==
    IF score > 70 THEN "high" ELSE IF score > 30 THEN "medium" ELSE "low"

\* Faulty variant: an entity without an assessment is counted as low risk.
CollectEntity_LowWhenAbsent(m, e) ==
    LET hasRisk == e.risk # None
        ff == IF hasRisk THEN e.risk.factor_flags ELSE 0
        sc == IF hasRisk THEN e.risk.score ELSE 0
        rf == BumpIf(BumpIf(BumpIf(BumpIf(BumpIf(m.risk_factor_counts,
                  0, BitAnd(ff, RISK_EU_ACT) # 0),
                  1, BitAnd(ff, RISK_GDPR) # 0),
                  2, BitAnd(ff, RISK_INTERNAL) # 0),
                  3, BitAnd(ff, RISK_SENSITIVE_DATA) # 0),
                  4, BitAnd(ff, RISK_PUBLIC_MODEL) # 0)
    IN [ m EXCEPT
           !.total_events = @ + 1,
           !.service_counts = Bump(@, e.name_idx),
           !.vendor_counts = Bump(@, e.vendor_idx),
           !.department_counts = Bump(@, e.department_idx),
           !.total_data_sensitivity = @ + e.data_sensitivity,
           !.data_sensitivity_samples = @ + 1,
           !.eu_act_violations =
               IF BitAnd(e.flags, EU_ACT_COMPLIANT) = 0 THEN @ + 1 ELSE @,
           !.gdpr_violations =
               IF BitAnd(e.flags, GDPR_COMPLIANT) = 0 THEN @ + 1 ELSE @,
           !.internal_violations =
               IF BitAnd(e.flags, INTERNAL_POLICY_COMPLIANT) = 0 THEN @ + 1 ELSE @,
           !.risk_factor_counts = rf,
           !.high_risk_count = IF Tier(sc) = "high" THEN @ + 1 ELSE @,
           !.medium_risk_count = IF Tier(sc) = "medium" THEN @ + 1 ELSE @,
           !.low_risk_count = IF Tier(sc) = "low" THEN @ + 1 ELSE @ ]

\* The body of collect_metrics' loop: one entity added to the metrics.
CollectEntity(m, e) ==
    LET hasRisk == e.risk # None
        ff == IF hasRisk THEN e.risk.factor_flags ELSE 0
        sc == IF hasRisk THEN e.risk.score ELSE 0
        rf == BumpIf(BumpIf(BumpIf(BumpIf(BumpIf(m.risk_factor_counts,
                  0, BitAnd(ff, RISK_EU_ACT) # 0),
                  1, BitAnd(ff, RISK_GDPR) # 0),
                  2, BitAnd(ff, RISK_INTERNAL) # 0),
                  3, BitAnd(ff, RISK_SENSITIVE_DATA) # 0),
                  4, BitAnd(ff, RISK_PUBLIC_MODEL) # 0)
    IN [ m EXCEPT
           !.total_events = @ + 1,
           !.service_counts = Bump(@, e.name_idx),
           !.vendor_counts = Bump(@, e.vendor_idx),
           !.department_counts = Bump(@, e.department_idx),
           !.total_data_sensitivity = @ + e.data_sensitivity,
           !.data_sensitivity_samples = @ + 1,
           !.eu_act_violations =
               IF BitAnd(e.flags, EU_ACT_COMPLIANT) = 0 THEN @ + 1 ELSE @,
           !.gdpr_violations =
               IF BitAnd(e.flags, GDPR_COMPLIANT) = 0 THEN @ + 1 ELSE @,
           !.internal_violations =
               IF BitAnd(e.flags, INTERNAL_POLICY_COMPLIANT) = 0 THEN @ + 1 ELSE @,
           !.risk_factor_counts = IF hasRisk THEN rf ELSE @,
           !.high_risk_count =
               IF hasRisk /\ Tier(sc) = "high" THEN @ + 1 ELSE @,
           !.medium_risk_count =
               IF hasRisk /\ Tier(sc) = "medium" THEN @ + 1 ELSE @,
           !.low_risk_count =
               IF hasRisk /\ Tier(sc) = "low" THEN @ + 1 ELSE @ ]

\* Faulty variant: the loop returns after the first entity.
CollectFrom_OnlyFirst(m, world, i) ==
    IF i > Len(world) THEN m ELSE CollectEntity(m, world[i])

\* The query loop of collect_metrics from the i-th entity on.
RECURSIVE CollectFrom(_, _, _)
CollectFrom(m, world, i) ==
    IF i > Len(world) THEN m
    ELSE CollectFrom(CollectEntity(m, world[i]), world, i + 1)

\* collect_metrics(world)
collect_metrics(world) ==
    LET m == CollectFrom(DefaultMetrics, world, 1)
    IN IF m.data_sensitivity_samples > 0
       THEN [m EXCEPT !.avg_data_sensitivity =
                Ratio(m.total_data_sensitivity, m.data_sensitivity_samples)]
       ELSE m

(***************************************************************************)
(* The running system: main thread (src/src/main.rs), worker threads       *)
(* (worker_thread in src/src/ecs.rs) and the dashboard thread.             *)
(***************************************************************************)
VARIABLES
    rate,               \* args.rate
    thread_count,       \* args.threads
    seed,               \* entropy the thread-local random sources start from
    events_per_batch,   \* main: events_per_thread / 100
    main_pc,            \* position of the main thread
    stop_signal,        \* Arc<AtomicBool>
    metrics_chan,       \* unbounded channel worker -> aggregator
    cmd_chan,           \* unbounded channel aggregator -> dashboard
    cmd_rx_alive,       \* the dashboard thread still owns cmd_receiver
    metrics_rx_alive,   \* metrics_receiver has not been dropped
    total_metrics,      \* main: total_metrics
    metrics_since_last, \* main: metrics_since_last
    w_pc,               \* position of each worker thread
    world,              \* each worker's hecs World
    thread_metrics,     \* each worker's accumulator
    batch_count,        \* each worker's batch_count
    rng,                \* each worker's random source
    dash_pc,            \* position of the dashboard thread
    dash_metrics,       \* Dashboard.metrics
    should_quit,        \* Dashboard.should_quit
    batches,            \* history: the batch snapshots each worker collected
    sent,               \* history: what each worker handed to metrics_sender
    recv_log,           \* history: the snapshots the aggregator received
    tick_mark,          \* history: Len(recv_log) at the last reporting tick
    tick_log,           \* history: one entry per reporting tick
    op_pc,              \* harness of the pure operations: its position
    op_in,              \* harness: the inputs drawn
    op_out              \* harness: the results computed

vars == << rate, thread_count, seed, events_per_batch, main_pc, stop_signal,
           metrics_chan, cmd_chan, cmd_rx_alive, metrics_rx_alive,
           total_metrics,
           metrics_since_last, w_pc, world, thread_metrics, batch_count, rng,
           dash_pc, dash_metrics, should_quit, batches, sent, recv_log,
           tick_mark, tick_log, op_pc, op_in, op_out >>

configVars == << rate, thread_count, seed >>
pureVars == << op_pc, op_in, op_out >>
mainVars == << events_per_batch, main_pc, total_metrics, metrics_since_last,
               recv_log, tick_mark, tick_log >>
workerVars == << w_pc, world, thread_metrics, batch_count, rng, batches, sent >>
dashVars == << dash_pc, dash_metrics, should_quit >>

\* A rate too small for one event per batch, and the largest rate.
Rates == { BatchDivisor \div 2, BatchDivisor * MaxRateHundreds }
Seeds == 0 .. MaxSeed

\* The generator state worker w starts from under entropy s.
SeedFor(s, w) == (89 * s + 101 * w) % RngModulus

\* The state when main() has parsed its arguments.
Init ==
    /\ rate \in Rates
    /\ thread_count \in 0 .. MaxThreads
    /\ seed \in Seeds
    /\ events_per_batch = 0
    /\ main_pc = "start"
    /\ stop_signal = FALSE
    /\ metrics_chan = << >>
    /\ cmd_chan = << >>
    /\ cmd_rx_alive = TRUE
    /\ metrics_rx_alive = TRUE
    /\ total_metrics = DefaultMetrics
    /\ metrics_since_last = DefaultMetrics
    /\ w_pc = [w \in Workers |-> "unspawned"]
    /\ world = [w \in Workers |-> << >>]
    /\ thread_metrics = [w \in Workers |-> DefaultMetrics]
    /\ batch_count = [w \in Workers |-> 0]
    /\ rng = [w \in Workers |-> 0]
    /\ dash_pc = "unspawned"
    /\ dash_metrics = DefaultMetrics
    /\ should_quit = FALSE
    /\ batches = [w \in Workers |-> << >>]
    /\ sent = [w \in Workers |-> << >>]
    /\ recv_log = << >>
    /\ tick_mark = 0
    /\ tick_log = << >>
    /\ op_pc = "idle"
    /\ op_in = << >>
    /\ op_out = << >>

(***************************************************************************)
(* main(): start-up.                                                       *)
(***************************************************************************)
\* Faulty variant: a worker count of 0 is silently raised to 1.
ResolveThreads_ClampsToOne(threads) == IF threads = 0 THEN 1 ELSE threads

\* let thread_count = args.threads.unwrap_or_else(..): a given count is taken
\* as it is, 0 included.
ResolveThreads(threads) == threads

\* rate / thread_count panics on a zero divisor; otherwise the workers, the
\* Ctrl+C handler and the dashboard thread are set up and the loop is entered.
MainStart ==
    /\ main_pc = "start"
    /\ \E n \in {ResolveThreads(thread_count)} :
       IF n = 0
       THEN /\ main_pc' = "panicked"
            /\ UNCHANGED << events_per_batch, w_pc, rng, dash_pc >>
       ELSE /\ events_per_batch' = (rate \div n) \div BatchDivisor
            /\ w_pc' = [w \in Workers |->
                          IF w <= n THEN "loop" ELSE "unspawned"]
            /\ rng' = [w \in Workers |->
                          IF w <= n THEN SeedFor(seed, w) ELSE 0]
            /\ dash_pc' = "loop"
            /\ main_pc' = "loop"
    /\ UNCHANGED << configVars, pureVars, stop_signal, metrics_chan, cmd_chan,
                    cmd_rx_alive, metrics_rx_alive, total_metrics, metrics_since_last, world,
                    thread_metrics, batch_count, dash_metrics, should_quit,
                    batches, sent, recv_log, tick_mark, tick_log >>

\* The Ctrl+C handler: ctrl_c_stop.store(true).
CtrlC ==
    /\ main_pc \notin {"start", "panicked", "done"}
    /\ stop_signal' = TRUE
    /\ UNCHANGED << configVars, pureVars, mainVars, workerVars, dashVars, metrics_chan,
                    cmd_chan, cmd_rx_alive, metrics_rx_alive >>

(***************************************************************************)
(* worker_thread.                                                          *)
(***************************************************************************)
\* The cap on the batches one worker starts: MaxCycles for a lone worker, and
\* fewer the more workers interleave.
CycleCap ==
    IF thread_count <= 1 THEN MaxCycles
    ELSE MaxCycles \div (thread_count * thread_count)

\* The four systems, in the order worker_thread calls them.
RuleChain(wd) ==
    risk_assessment_system(internal_policy_system(gdpr_system(eu_ai_act_system(wd))))

\* Faulty variant: the loop never looks at the flag.
WorkerLoopCond_IgnoresStop(stop) == TRUE

\* The loop condition of worker_thread, given the value loaded from the flag.
WorkerLoopCond(stop) == ~stop

\* while !stop_signal.load(): on true the loop ends; on false the batch is
\* generated, spawned with the all-compliant register and run through the
\* four systems.
WorkerLoopTest(w) ==
    /\ w_pc[w] = "loop"
    /\ IF ~WorkerLoopCond(stop_signal)
       THEN /\ w_pc' = [w_pc EXCEPT ![w] = "residual"]
            /\ UNCHANGED << world, rng >>
       ELSE /\ batch_count[w] < CycleCap
            /\ \E events \in {generate_ai_events(events_per_batch, rng[w])} :
               \E spawned \in {world[w] \o [i \in DOMAIN events |-> Spawn(events[i])]} :
               \E evaluated \in {RuleChain(spawned)} :
                  world' = [world EXCEPT ![w] = evaluated]
            /\ rng' = [rng EXCEPT ![w] = RngSkip(@, 4 * events_per_batch)]
            /\ w_pc' = [w_pc EXCEPT ![w] = "collect"]
    /\ UNCHANGED << configVars, pureVars, mainVars, dashVars, stop_signal, metrics_chan,
                    cmd_chan, cmd_rx_alive, metrics_rx_alive, thread_metrics, batch_count,
                    batches, sent >>

\* Faulty variant: the cadence is off by one.
FlushDue_EveryNinth(n) == n % (FlushEvery - 1) = 0

\* Whether the cycle that made batch_count equal to n ends with a flush.
FlushDue(n) == n % FlushEvery = 0

\* What the periodic flush hands to metrics_sender.send.
PeriodicPayload(acc) == << acc >>

\* Faulty variant: the accumulator is not reset by the flush.
AfterFlush_KeepsAccumulator(acc) == acc

\* thread_metrics after the periodic flush.
AfterFlush(acc) == DefaultMetrics

\* metrics_sender.send: the snapshot is queued unless the receiver is gone,
\* in which case send returns Err and the snapshot is dropped.
SendMetrics(chan, alive, out) == IF alive THEN chan \o out ELSE chan

\* Faulty variant: a failed periodic send ends the loop.
AfterPeriodicSend_BreaksOnError(ok) == IF ok THEN "loop" ELSE "residual"

\* Where the worker continues after the periodic send returned: the Err
\* branch only prints.
AfterPeriodicSend(ok) == "loop"

\* Faulty variant: a flushing cycle skips the clear.
WorldAfterCycle_SkipsOnFlush(wd, flushed) == IF flushed THEN wd ELSE << >>

\* world.clear() at the end of the loop body, after the if of the flush.
WorldAfterCycle(wd, flushed) == << >>

\* collect, merge, count, flush on every 10th batch, clear the world.
WorkerCollect(w) ==
    /\ w_pc[w] = "collect"
    /\ \E batch_metrics \in {collect_metrics(world[w])} :
       \E merged \in {merge(thread_metrics[w], batch_metrics)} :
       \E n \in {batch_count[w] + 1} :
       \E out \in {IF FlushDue(n) THEN PeriodicPayload(merged) ELSE << >>} :
          /\ batch_count' = [batch_count EXCEPT ![w] = n]
          /\ batches' = [batches EXCEPT ![w] = Append(@, batch_metrics)]
          /\ metrics_chan' = SendMetrics(metrics_chan, metrics_rx_alive, out)
          /\ sent' = [sent EXCEPT ![w] = @ \o
                        [i \in DOMAIN out |->
                           [m |-> out[i], kind |-> "periodic", cycle |-> n,
                            ok |-> metrics_rx_alive]]]
          /\ thread_metrics' = [thread_metrics EXCEPT ![w] =
                                  IF FlushDue(n) THEN AfterFlush(merged) ELSE merged]
          /\ w_pc' = [w_pc EXCEPT ![w] =
                        IF FlushDue(n) THEN AfterPeriodicSend(metrics_rx_alive)
                        ELSE "loop"]
    /\ world' = [world EXCEPT ![w] = WorldAfterCycle(@, FlushDue(batch_count[w] + 1))]
    /\ UNCHANGED << configVars, pureVars, mainVars, dashVars, stop_signal, cmd_chan,
                    cmd_rx_alive, metrics_rx_alive, rng >>

\* Faulty variant: the residual send is unconditional.
ResidualPayload_Always(acc) == << acc >>

\* What the code after the loop hands to metrics_sender.send.
ResidualPayload(acc) == IF acc.total_events > 0 THEN << acc >> ELSE << >>

\* After the loop: send the accumulator if it holds events; the thread ends.
WorkerResidual(w) ==
    /\ w_pc[w] = "residual"
    /\ \E out \in {ResidualPayload(thread_metrics[w])} :
          /\ metrics_chan' = SendMetrics(metrics_chan, metrics_rx_alive, out)
          /\ sent' = [sent EXCEPT ![w] = @ \o
                        [i \in DOMAIN out |->
                           [m |-> out[i], kind |-> "residual",
                            cycle |-> batch_count[w],
                            ok |-> metrics_rx_alive]]]
    /\ w_pc' = [w_pc EXCEPT ![w] = "done"]
    /\ UNCHANGED << configVars, pureVars, mainVars, dashVars, stop_signal, cmd_chan,
                    cmd_rx_alive, metrics_rx_alive, world, thread_metrics, batch_count, rng,
                    batches >>

(***************************************************************************)
(* main(): the aggregation loop and shutdown.                              *)
(***************************************************************************)
\* The loop condition of main's aggregation loop.
AggLoopCond(stop) == ~stop

\* while !stop_signal.load()
AggLoopTest ==
    /\ main_pc = "loop"
    /\ main_pc' = IF AggLoopCond(stop_signal) THEN "drain" ELSE "join_dashboard"
    /\ UNCHANGED << configVars, pureVars, workerVars, dashVars, stop_signal,
                    metrics_chan, cmd_chan, cmd_rx_alive, metrics_rx_alive, events_per_batch,
                    total_metrics, metrics_since_last, recv_log, tick_mark,
                    tick_log >>

\* Faulty variant: the channel is drained once more while joining the workers.
DrainSites_WithFinalDrain == {"drain", "join_workers"}

\* The positions of main at which metrics_receiver.try_recv() is called: the
\* inner loop of the aggregation loop and nowhere after it.
DrainSites == {"drain"}

\* Faulty variant: the received snapshot stays in the channel.
AfterRecv_KeepsHead(chan) == chan

\* The channel after try_recv() returned its oldest snapshot.
AfterRecv(chan) == Tail(chan)

\* while let Ok(metrics) = try_recv(): one received snapshot, merged into both.
AggRecv ==
    /\ main_pc \in DrainSites
    /\ metrics_chan # << >>
    /\ \E metrics \in {Head(metrics_chan)} :
          /\ total_metrics' = merge(total_metrics, metrics)
          /\ metrics_since_last' = merge(metrics_since_last, metrics)
          /\ recv_log' = Append(recv_log, metrics)
    /\ metrics_chan' = AfterRecv(metrics_chan)
    /\ UNCHANGED << configVars, pureVars, workerVars, dashVars, stop_signal, cmd_chan,
                    cmd_rx_alive, metrics_rx_alive, events_per_batch, main_pc, tick_mark,
                    tick_log >>

\* Elapsed times, in seconds, at which the interval test can succeed.
ElapsedValues == { DefaultInterval }

\* Faulty variant: the throughput is computed after metrics_since_last was reset.
TickTotal_AfterReset(total, since, elapsed) ==
    update_historical_data(total, 0, elapsed)

\* Faulty variant: the violation entry is taken from metrics_since_last, the
\* violations of the interval.
TickTotal_PushesInterval(total, since, elapsed) ==
    [ update_historical_data(total, since.total_events, elapsed) EXCEPT
        !.historical_violations =
            PushBounded(total.historical_violations,
                        << since.eu_act_violations, since.gdpr_violations,
                           since.internal_violations >>) ]

\* total_metrics after the reporting tick.
TickTotal(total, since, elapsed) ==
    update_historical_data(total, since.total_events, elapsed)

\* Faulty variant: metrics_since_last is not reset by the tick.
TickSince_Keeps(since) == since

\* metrics_since_last after the reporting tick.
TickSince(since) == DefaultMetrics

\* cmd_sender.send: the command is queued unless the receiver is gone.
SendCmd(chan, alive, m) == IF alive THEN Append(chan, m) ELSE chan

\* try_recv() finds the channel empty and the interval has elapsed: update
\* the history, send the copy, reset, sleep.
AggReport ==
    /\ main_pc = "drain"
    /\ metrics_chan = << >>
    /\ Len(tick_log) < MaxTicks
    /\ \E elapsed \in ElapsedValues :
       \E updated \in {TickTotal(total_metrics, metrics_since_last, elapsed)} :
             /\ total_metrics' = updated
             /\ cmd_chan' = SendCmd(cmd_chan, cmd_rx_alive, updated)
             /\ tick_log' = Append(tick_log,
                               [ elapsed |-> elapsed,
                                 processed |-> metrics_since_last.total_events,
                                 payload |-> updated,
                                 delivered |-> cmd_rx_alive ])
    /\ metrics_since_last' = TickSince(metrics_since_last)
    /\ tick_mark' = Len(recv_log)
    /\ main_pc' = "loop"
    /\ UNCHANGED << configVars, pureVars, workerVars, dashVars, stop_signal,
                    metrics_chan, cmd_rx_alive, metrics_rx_alive, events_per_batch, recv_log >>

\* try_recv() finds the channel empty and the interval has not elapsed: sleep.
AggSleep ==
    /\ main_pc = "drain"
    /\ metrics_chan = << >>
    /\ main_pc' = "loop"
    /\ UNCHANGED << configVars, pureVars, workerVars, dashVars, stop_signal,
                    metrics_chan, cmd_chan, cmd_rx_alive, metrics_rx_alive, events_per_batch,
                    total_metrics, metrics_since_last, recv_log, tick_mark,
                    tick_log >>

\* dashboard_handle.join()
MainJoinDashboard ==
    /\ main_pc = "join_dashboard"
    /\ dash_pc = "done"
    /\ main_pc' = "join_workers"
    /\ UNCHANGED << configVars, pureVars, workerVars, dashVars, stop_signal,
                    metrics_chan, cmd_chan, cmd_rx_alive, metrics_rx_alive, events_per_batch,
                    total_metrics, metrics_since_last, recv_log, tick_mark,
                    tick_log >>

\* Faulty variant: the last worker handle is not joined.
JoinTargets_SkipsLast(n) == 1 .. (n - 1)

\* The workers whose handles main joins: all n it spawned.
JoinTargets(n) == 1 .. n

\* for handle in worker_handles { handle.join() }; "Shutdown complete."; main
\* returns and metrics_receiver is dropped.
MainJoinWorkers ==
    /\ main_pc = "join_workers"
    /\ \A w \in JoinTargets(thread_count) : w_pc[w] = "done"
    /\ main_pc' = "done"
    /\ metrics_rx_alive' = FALSE
    /\ UNCHANGED << configVars, pureVars, workerVars, dashVars, stop_signal,
                    metrics_chan, cmd_chan, cmd_rx_alive, events_per_batch,
                    total_metrics, metrics_since_last, recv_log, tick_mark,
                    tick_log >>

(***************************************************************************)
(* The dashboard thread (closure in main(), Dashboard in ui/dashboard.rs). *)
(***************************************************************************)
\* Dashboard::handle_command(UpdateMetrics(metrics))
handle_command(current, cmd) == cmd

\* Dashboard::handle_key_event: 'q' and Esc set should_quit.
handle_key_event(quit, key) == IF key = "q" THEN TRUE ELSE quit

\* while !dashboard_stop.load() && !dashboard.should_quit: when the loop
\* ends the terminal is restored, the thread ends and drops cmd_receiver.
DashLoopTest ==
    /\ dash_pc = "loop"
    /\ IF stop_signal \/ should_quit
       THEN dash_pc' = "done" /\ cmd_rx_alive' = FALSE
       ELSE dash_pc' = "commands" /\ UNCHANGED cmd_rx_alive
    /\ UNCHANGED << configVars, pureVars, mainVars, workerVars, stop_signal,
                    metrics_chan, cmd_chan, metrics_rx_alive, dash_metrics,
                    should_quit >>

\* while let Ok(cmd) = cmd_receiver.try_recv(): one command handled.
DashRecv ==
    /\ dash_pc = "commands"
    /\ cmd_chan # << >>
    /\ dash_metrics' = handle_command(dash_metrics, Head(cmd_chan))
    /\ cmd_chan' = Tail(cmd_chan)
    /\ UNCHANGED << configVars, pureVars, mainVars, workerVars, stop_signal,
                    metrics_chan, cmd_rx_alive, metrics_rx_alive, dash_pc, should_quit >>

\* Faulty variant: the flag is overwritten with should_quit after every key.
DashStopStore_Mirrors(quit, stop) == quit

\* if dashboard.should_quit { dashboard_stop.store(true) }: the flag after a
\* key was handled.
DashStopStore(quit, stop) == IF quit THEN TRUE ELSE stop

\* try_recv() finds no command: render, then event::poll: no key within the
\* timeout, or a key that is handled; a quit key also stores true into the
\* stop flag.
DashPoll ==
    /\ dash_pc = "commands"
    /\ cmd_chan = << >>
    /\ \E key \in {"none", "q", "tab"} :
          /\ should_quit' = IF key = "none" THEN should_quit
                            ELSE handle_key_event(should_quit, key)
          /\ stop_signal' = IF key # "none"
                            THEN DashStopStore(should_quit', stop_signal)
                            ELSE stop_signal
    /\ dash_pc' = "loop"
    /\ UNCHANGED << configVars, pureVars, mainVars, workerVars, metrics_chan, cmd_chan,
                    cmd_rx_alive, metrics_rx_alive, dash_metrics >>

Next ==
    \/ MainStart
    \/ CtrlC
    \/ \E w \in Workers : WorkerLoopTest(w)
    \/ \E w \in Workers : WorkerCollect(w)
    \/ \E w \in Workers : WorkerResidual(w)
    \/ AggLoopTest
    \/ AggRecv
    \/ AggReport
    \/ AggSleep
    \/ MainJoinDashboard
    \/ MainJoinWorkers
    \/ DashLoopTest
    \/ DashRecv
    \/ DashPoll

Spec == Init /\ [][Next]_vars

(***************************************************************************)
(* Fair scheduling: every thread that can take a step eventually does.     *)
(***************************************************************************)
WorkerStep(w) == WorkerLoopTest(w) \/ WorkerCollect(w) \/ WorkerResidual(w)
AggStep == AggLoopTest \/ AggRecv \/ AggReport \/ AggSleep
DashStep == DashLoopTest \/ DashRecv \/ DashPoll

Fairness ==
    /\ \A w \in Workers : WF_vars(WorkerStep(w))
    /\ WF_vars(AggStep)
    /\ WF_vars(DashStep)

\* The fair runs start from the configurations whose batches hold events.
InitFair == Init /\ rate = BatchDivisor * MaxRateHundreds

SpecFair == InitFair /\ [][Next]_vars /\ Fairness

(***************************************************************************)
(* Harness of worker_thread: one worker runs with one statement of the     *)
(* loop body per step; whoever holds the flag may set it and whoever holds *)
(* the receiver may drop it, at any time.                                  *)
(***************************************************************************)
\* The worker is called with a batch size, a fresh flag and a live channel.
InitWorker ==
    /\ thread_count = 1
    /\ \E k \in 0 .. MaxRateHundreds :
          rate = BatchDivisor * k /\ events_per_batch = k
    /\ seed \in Seeds
    /\ main_pc = "idle"
    /\ stop_signal = FALSE
    /\ metrics_chan = << >>
    /\ metrics_rx_alive = TRUE
    /\ cmd_chan = << >>
    /\ cmd_rx_alive = FALSE
    /\ total_metrics = DefaultMetrics
    /\ metrics_since_last = DefaultMetrics
    /\ w_pc = [w \in Workers |-> IF w = 1 THEN "loop" ELSE "unspawned"]
    /\ world = [w \in Workers |-> << >>]
    /\ thread_metrics = [w \in Workers |-> DefaultMetrics]
    /\ batch_count = [w \in Workers |-> 0]
    /\ rng = [w \in Workers |-> IF w = 1 THEN SeedFor(seed, w) ELSE 0]
    /\ dash_pc = "unspawned"
    /\ dash_metrics = DefaultMetrics
    /\ should_quit = FALSE
    /\ batches = [w \in Workers |-> << >>]
    /\ sent = [w \in Workers |-> << >>]
    /\ recv_log = << >>
    /\ tick_mark = 0
    /\ tick_log = << >>
    /\ op_pc = "idle"
    /\ op_in = << >>
    /\ op_out = << >>

\* What a step of the worker's loop body leaves alone.
WorkerFrame ==
    UNCHANGED << configVars, pureVars, mainVars, dashVars, stop_signal,
                 metrics_chan, cmd_chan, cmd_rx_alive, metrics_rx_alive,
                 thread_metrics, batch_count, batches, sent >>

\* The loop test finds the flag set: the loop ends.
WorkerExit(w) ==
    /\ w_pc[w] = "loop"
    /\ ~WorkerLoopCond(stop_signal)
    /\ w_pc' = [w_pc EXCEPT ![w] = "residual"]
    /\ UNCHANGED << world, rng >>
    /\ WorkerFrame

\* The loop test finds the flag clear: the batch is generated and spawned.
WorkerSpawnBatch(w) ==
    /\ w_pc[w] = "loop"
    /\ WorkerLoopCond(stop_signal)
    /\ batch_count[w] < CycleCap
    /\ \E events \in {generate_ai_events(events_per_batch, rng[w])} :
          world' = [world EXCEPT ![w] =
                      @ \o [i \in DOMAIN events |-> Spawn(events[i])]]
    /\ rng' = [rng EXCEPT ![w] = RngSkip(@, 4 * events_per_batch)]
    /\ w_pc' = [w_pc EXCEPT ![w] = "eu"]
    /\ WorkerFrame

\* One system call of the loop body.
WorkerStage(w, from, to, result) ==
    /\ w_pc[w] = from
    /\ w_pc' = [w_pc EXCEPT ![w] = to]
    /\ world' = [world EXCEPT ![w] = result]
    /\ UNCHANGED rng
    /\ WorkerFrame

WorkerEu(w) == WorkerStage(w, "eu", "gdpr", eu_ai_act_system(world[w]))
WorkerGdpr(w) == WorkerStage(w, "gdpr", "internal", gdpr_system(world[w]))
WorkerInternal(w) ==
    WorkerStage(w, "internal", "risk", internal_policy_system(world[w]))
WorkerRisk(w) ==
    WorkerStage(w, "risk", "collect", risk_assessment_system(world[w]))

\* Some holder of the flag stores true.
EnvStop ==
    /\ stop_signal' = TRUE
    /\ UNCHANGED << configVars, pureVars, mainVars, workerVars, dashVars,
                    metrics_chan, cmd_chan, cmd_rx_alive, metrics_rx_alive >>

\* The receiver of the metrics channel is dropped.
EnvDropReceiver ==
    /\ metrics_rx_alive
    /\ metrics_rx_alive' = FALSE
    /\ UNCHANGED << configVars, pureVars, mainVars, workerVars, dashVars,
                    stop_signal, metrics_chan, cmd_chan, cmd_rx_alive >>

NextWorker ==
    \/ \E w \in Workers : WorkerExit(w)
    \/ \E w \in Workers : WorkerSpawnBatch(w)
    \/ \E w \in Workers : WorkerEu(w)
    \/ \E w \in Workers : WorkerGdpr(w)
    \/ \E w \in Workers : WorkerInternal(w)
    \/ \E w \in Workers : WorkerRisk(w)
    \/ \E w \in Workers : WorkerCollect(w)
    \/ \E w \in Workers : WorkerResidual(w)
    \/ EnvStop
    \/ EnvDropReceiver

SpecWorker == InitWorker /\ [][NextWorker]_vars

(***************************************************************************)
(* Harness of ComplianceMetrics::merge: three snapshots are drawn and the  *)
(* three groupings of the spec are computed.                               *)
(***************************************************************************)
\* How many generator states the sample snapshots are collected from.
MaxSample == 2

\* The snapshot of one evaluated batch of two events generated from state x.
SampleBatch(x) ==
    LET events == generate_ai_events(2, x)
    IN collect_metrics(RuleChain([i \in DOMAIN events |-> Spawn(events[i])]))

\* Snapshots as workers produce them, and as the aggregator holds them
\* after a reporting tick.
SampleSnapshots ==
    {DefaultMetrics}
    \cup { SampleBatch(101 * k) : k \in 0 .. MaxSample }
    \cup { update_historical_data(SampleBatch(101 * k), k, DefaultInterval) :
             k \in 0 .. MaxSample }

systemIdle ==
    /\ rate = 0 /\ thread_count = 0 /\ seed = 0 /\ events_per_batch = 0
    /\ main_pc = "idle" /\ stop_signal = FALSE
    /\ metrics_chan = << >> /\ cmd_chan = << >> /\ cmd_rx_alive = FALSE
    /\ metrics_rx_alive = FALSE
    /\ total_metrics = DefaultMetrics /\ metrics_since_last = DefaultMetrics
    /\ w_pc = [w \in Workers |-> "unspawned"]
    /\ world = [w \in Workers |-> << >>]
    /\ thread_metrics = [w \in Workers |-> DefaultMetrics]
    /\ batch_count = [w \in Workers |-> 0]
    /\ rng = [w \in Workers |-> 0]
    /\ dash_pc = "unspawned" /\ dash_metrics = DefaultMetrics
    /\ should_quit = FALSE
    /\ batches = [w \in Workers |-> << >>]
    /\ sent = [w \in Workers |-> << >>]
    /\ recv_log = << >> /\ tick_mark = 0 /\ tick_log = << >>

systemVars == << rate, thread_count, seed, events_per_batch, main_pc,
                 stop_signal, metrics_chan, cmd_chan, cmd_rx_alive,
                 metrics_rx_alive,
                 total_metrics, metrics_since_last, w_pc, world,
                 thread_metrics, batch_count, rng, dash_pc, dash_metrics,
                 should_quit, batches, sent, recv_log, tick_mark, tick_log >>

InitMerge ==
    /\ systemIdle
    /\ op_pc = "drawn"
    /\ op_in \in SampleSnapshots \X SampleSnapshots \X SampleSnapshots
    /\ op_out = << >>

MergeApply ==
    /\ op_pc = "drawn"
    /\ LET a == op_in[1]
           b == op_in[2]
           c == op_in[3]
       IN op_out' = << merge(merge(a, b), c),
                       merge(a, merge(b, c)),
                       merge(c, merge(a, b)) >>
    /\ op_pc' = "merged"
    /\ UNCHANGED << systemVars, op_in >>

NextMerge == MergeApply

SpecMerge == InitMerge /\ [][NextMerge]_vars

(***************************************************************************)
(* Harness of ComplianceMetrics::update_historical_data: one metrics value *)
(* (op_out) is merged into and ticked; op_in logs every appended entry.    *)
(***************************************************************************)
\* Appends the windowing harness performs: more than HistoryLimit.
MaxAppends == 32
\* Snapshots the windowing harness merges in between appends.
MaxHistMerges == 2

InitHist ==
    /\ systemIdle
    /\ op_pc = 0
    /\ op_in = << >>
    /\ op_out = DefaultMetrics

\* A snapshot is merged into the metrics, as the aggregator's drain does.
HistMerge ==
    /\ op_pc < MaxHistMerges
    /\ op_pc' = op_pc + 1
    /\ op_out' = merge(op_out, SampleBatch(101 * op_pc))
    /\ UNCHANGED << systemVars, op_in >>

\* A reporting tick: update_historical_data with the events counted so far.
HistAppend ==
    /\ Len(op_in) < MaxAppends
    /\ LET processed == op_out.total_events
       IN /\ op_out' = update_historical_data(op_out, processed, DefaultInterval)
          /\ op_in' = Append(op_in,
                        [ rate |-> Ratio(processed, DefaultInterval),
                          violations |-> << op_out.eu_act_violations,
                                            op_out.gdpr_violations,
                                            op_out.internal_violations >> ])
    /\ UNCHANGED << systemVars, op_pc >>

NextHist == HistMerge \/ HistAppend

SpecHist == InitHist /\ [][NextHist]_vars

(***************************************************************************)
(* Harness of the rule chain and the collector: one entity is drawn with   *)
(* any compliance register, the four systems run on its world one after    *)
(* the other, the world is collected and the snapshot is merged.           *)
(***************************************************************************)
\* Sensitivities on both sides of every threshold the systems compare with.
SensitivityValues == {0, 49, 50, 70, 71, 80, 81, 85, 99}

\* The entities the harness draws: every service, vendor and department, and
\* every value of the three-bit register.
RuleInputs ==
    [ name_idx : Idx, vendor_idx : Idx, department_idx : Idx,
      data_sensitivity : SensitivityValues,
      flags : 0 .. (EU_ACT_COMPLIANT + GDPR_COMPLIANT + INTERNAL_POLICY_COMPLIANT),
      risk : {None} ]

InitRules ==
    /\ systemIdle
    /\ op_pc = "spawned"
    /\ op_in \in RuleInputs
    /\ op_out = [ world |-> << op_in >>, snapshot |-> DefaultMetrics,
                  merged |-> DefaultMetrics, first |-> << >>, ran |-> {} ]

\* One system of the chain applied to the harness world.
RulesStage(from, to, result) ==
    /\ op_pc = from
    /\ op_pc' = to
    /\ op_out' = [op_out EXCEPT !.world = result]
    /\ UNCHANGED << systemVars, op_in >>

RulesEu == RulesStage("spawned", "eu", eu_ai_act_system(op_out.world))
RulesGdpr == RulesStage("eu", "gdpr", gdpr_system(op_out.world))
RulesInternal ==
    RulesStage("gdpr", "internal", internal_policy_system(op_out.world))
RulesRisk == RulesStage("internal", "risk", risk_assessment_system(op_out.world))

\* A system, or the chain, applied once more to the evaluated world; the
\* world of the first pass is kept for comparison.
RulesAgain(to, result) ==
    /\ op_pc = "risk"
    /\ op_pc' = to
    /\ op_out' = [op_out EXCEPT !.first = op_out.world, !.world = result]
    /\ UNCHANGED << systemVars, op_in >>

RulesRiskAgain == RulesAgain("risk_again", risk_assessment_system(op_out.world))
RulesChainAgain == RulesAgain("chain_again", RuleChain(op_out.world))

\* collect_metrics on the evaluated world.
RulesCollect ==
    /\ op_pc = "risk"
    /\ op_pc' = "collected"
    /\ op_out' = [op_out EXCEPT !.snapshot = collect_metrics(op_out.world)]
    /\ UNCHANGED << systemVars, op_in >>

\* The three compliance systems and the bit each one owns.
ComplianceSystems == {"eu", "gdpr", "internal"}
SystemBit(name) ==
    CASE name = "eu" -> EU_ACT_COMPLIANT
      [] name = "gdpr" -> GDPR_COMPLIANT
      [] name = "internal" -> INTERNAL_POLICY_COMPLIANT
RunSystem(name, wd) ==
    CASE name = "eu" -> eu_ai_act_system(wd)
      [] name = "gdpr" -> gdpr_system(wd)
      [] name = "internal" -> internal_policy_system(wd)

\* The compliance systems called in another order: any system that has not
\* run yet runs next.
RulesAnyOrder ==
    /\ op_pc \in {"spawned", "any_order"}
    /\ op_pc' = "any_order"
    /\ \E name \in ComplianceSystems \ op_out.ran :
          op_out' = [op_out EXCEPT !.world = RunSystem(name, op_out.world),
                                   !.ran = @ \cup {name}]
    /\ UNCHANGED << systemVars, op_in >>

\* collect_metrics on a world the risk stage has not run on yet.
RulesCollectEarly ==
    /\ op_pc \in {"spawned", "eu", "gdpr", "internal"}
    /\ op_pc' = "collected_early"
    /\ op_out' = [op_out EXCEPT !.snapshot = collect_metrics(op_out.world)]
    /\ UNCHANGED << systemVars, op_in >>

\* The snapshot is merged into an accumulator holding earlier batches.
RulesMerge ==
    /\ op_pc = "collected"
    /\ op_pc' = "merged"
    /\ \E acc \in SampleSnapshots :
          op_out' = [op_out EXCEPT !.merged = merge(acc, op_out.snapshot)]
    /\ UNCHANGED << systemVars, op_in >>

NextRules ==
    \/ RulesEu
    \/ RulesGdpr
    \/ RulesInternal
    \/ RulesRisk
    \/ RulesRiskAgain
    \/ RulesChainAgain
    \/ RulesCollect
    \/ RulesCollectEarly
    \/ RulesAnyOrder
    \/ RulesMerge

SpecRules == InitRules /\ [][NextRules]_vars

(***************************************************************************)
(* Harness of ComplianceMetrics::compliance_percentage: a snapshot is      *)
(* drawn with any number of events and, per rule, any number of them in    *)
(* violation.                                                              *)
(***************************************************************************)
\* The most events a drawn snapshot holds.
MaxPctEvents == 10

PctInputs ==
    { [DefaultMetrics EXCEPT !.total_events = t, !.eu_act_violations = e,
                             !.gdpr_violations = g, !.internal_violations = p] :
        t \in 0 .. MaxPctEvents, e \in 0 .. MaxPctEvents,
        g \in 0 .. MaxPctEvents, p \in 0 .. MaxPctEvents }

InitPct ==
    /\ systemIdle
    /\ op_pc = "drawn"
    /\ op_in \in { m \in PctInputs :
                     /\ m.eu_act_violations <= m.total_events
                     /\ m.gdpr_violations <= m.total_events
                     /\ m.internal_violations <= m.total_events }
    /\ op_out = << >>

PctApply ==
    /\ op_pc = "drawn"
    /\ op_pc' = "computed"
    /\ op_out' = compliance_percentage(op_in)
    /\ UNCHANGED << systemVars, op_in >>

NextPct == PctApply

SpecPct == InitPct /\ [][NextPct]_vars

(***************************************************************************)
(* Harness of the aggregation loop over a fixed multiset of snapshots:     *)
(* three snapshots are in flight from the workers, try_recv() delivers     *)
(* them in any order, and reporting ticks fall anywhere between them.      *)
(***************************************************************************)
\* Snapshots as workers send them: one batch, or two batches accumulated.
OrderSnapshots ==
    {DefaultMetrics}
    \cup { SampleBatch(101 * k) : k \in 0 .. MaxSample }
    \cup { merge(SampleBatch(0), SampleBatch(101 * k)) : k \in 1 .. MaxSample }

\* The indices of op_in already received.
Received == { op_out.order[k] : k \in DOMAIN op_out.order }

InitOrder ==
    /\ systemIdle
    /\ op_pc = "draining"
    /\ op_in \in OrderSnapshots \X OrderSnapshots \X OrderSnapshots
    /\ op_out = [ total |-> DefaultMetrics, since |-> DefaultMetrics,
                  order |-> << >>, marks |-> << >> ]

\* while let Ok(metrics) = metrics_receiver.try_recv(): one snapshot, whichever
\* worker's send reached the channel first, is merged into both accumulators.
OrderRecv ==
    /\ op_pc = "draining"
    /\ \E i \in (1 .. 3) \ Received :
       \E metrics \in {op_in[i]} :
          op_out' = [ op_out EXCEPT
                        !.total = merge(@, metrics),
                        !.since = merge(@, metrics),
                        !.order = Append(@, i) ]
    /\ UNCHANGED << systemVars, op_pc, op_in >>

\* The interval has elapsed: the drain cycle ends with a reporting tick.
OrderTick ==
    /\ op_pc = "draining"
    /\ Len(op_out.marks) < MaxTicks
    /\ \E elapsed \in ElapsedValues :
          op_out' = [ op_out EXCEPT
                        !.total = TickTotal(@, op_out.since, elapsed),
                        !.since = TickSince(@),
                        !.marks = Append(@, Len(op_out.order)) ]
    /\ UNCHANGED << systemVars, op_pc, op_in >>

NextOrder == OrderRecv \/ OrderTick

SpecOrder == InitOrder /\ [][NextOrder]_vars

(***************************************************************************)
(* Vocabulary of the properties.                                           *)
(***************************************************************************)
\* The scalar counters and the four distributions of a snapshot.
Counters(m) ==
    [ total_events |-> m.total_events,
      eu_act_violations |-> m.eu_act_violations,
      gdpr_violations |-> m.gdpr_violations,
      internal_violations |-> m.internal_violations,
      high_risk_count |-> m.high_risk_count,
      medium_risk_count |-> m.medium_risk_count,
      low_risk_count |-> m.low_risk_count,
      total_data_sensitivity |-> m.total_data_sensitivity,
      data_sensitivity_samples |-> m.data_sensitivity_samples,
      service_counts |-> m.service_counts,
      vendor_counts |-> m.vendor_counts,
      department_counts |-> m.department_counts,
      risk_factor_counts |-> m.risk_factor_counts ]

ScalarFields ==
    { "total_events", "eu_act_violations", "gdpr_violations",
      "internal_violations", "high_risk_count", "medium_risk_count",
      "low_risk_count", "total_data_sensitivity", "data_sensitivity_samples" }
ArrayFields ==
    { "service_counts", "vendor_counts", "department_counts",
      "risk_factor_counts" }

\* Element-wise sum of two Counters records.
AddCounters(x, y) ==
    [ f \in ScalarFields \cup ArrayFields |->
        IF f \in ScalarFields THEN x[f] + y[f]
        ELSE [i \in Idx |-> x[f][i] + y[f][i]] ]

ZeroCounters ==
    [ f \in ScalarFields \cup ArrayFields |->
        IF f \in ScalarFields THEN 0 ELSE [i \in Idx |-> 0] ]

\* x <= y in every counter.
CountersLeq(x, y) ==
    /\ \A f \in ScalarFields : x[f] <= y[f]
    /\ \A f \in ArrayFields : \A i \in Idx : x[f][i] <= y[f][i]

\* Element-wise sum of the counters of snapshots seq[from .. to].
RECURSIVE SumRange(_, _, _)
SumRange(seq, from, to) ==
    IF from > to THEN ZeroCounters
    ELSE AddCounters(SumRange(seq, from, to - 1), Counters(seq[to]))

SumAll(seq) == SumRange(seq, 1, Len(seq))

\* The snapshots of a worker's sent log.
SentSnapshots(w) == [i \in DOMAIN sent[w] |-> sent[w][i].m]
\* The entries of a worker's sent log of one kind.
SentOfKind(w, kind) == SelectSeq(sent[w], LAMBDA e : e.kind = kind)

Spawned(w) == w_pc[w] # "unspawned"

HistoryEmpty(m) ==
    /\ m.historical_rates = << >>
    /\ m.historical_violations = << >>
    /\ m.processing_rate = <<0, 1>>

\* The last n elements of a sequence, in order.
LastN(seq, n) ==
    IF Len(seq) <= n THEN seq ELSE SubSeq(seq, Len(seq) - n + 1, Len(seq))

(***************************************************************************)
(* Properties.                                                             *)
(***************************************************************************)
\* The batches worker w collected since its last periodic flush.
PendingSum(w) ==
    SumRange(batches[w], 10 * (batch_count[w] \div 10) + 1, batch_count[w])

\* C1: per-worker conservation.  For every worker, the element-wise sum of
\* the snapshots it handed to the metrics channel plus its accumulator equals
\* the element-wise sum of the batch snapshots it collected; once the worker
\* has terminated, the snapshots it sent (periodic and residual) alone sum to
\* the batch snapshots.
C1_Conservation ==
    \A w \in Workers :
        Spawned(w) =>
            IF w_pc[w] = "done"
            THEN SumAll(SentSnapshots(w)) = SumAll(batches[w])
            ELSE AddCounters(SumAll(SentSnapshots(w)),
                             Counters(thread_metrics[w])) = SumAll(batches[w])

\* A terminated worker that flushed periodically and then sent a residual.
C1_Witness ==
    \E w \in Workers :
        /\ w_pc[w] = "done"
        /\ Len(SentOfKind(w, "periodic")) >= 1
        /\ Len(SentOfKind(w, "residual")) = 1
        /\ SumAll(batches[w]).total_events > 0
        /\ SumAll(batches[w]).gdpr_violations > 0

LoopsExited ==
    /\ \A w \in Workers : Spawned(w) => w_pc[w] = "done"
    /\ main_pc \notin {"loop", "drain"}

\* C2: termination.  Under fair scheduling, once the stop flag is set every
\* worker and the aggregation loop eventually terminate; and with the flag
\* set no worker and no aggregator iteration starts a new cycle, so each
\* completes at most the cycle it is in.
C2_Termination ==
    /\ stop_signal ~> LoopsExited
    /\ [][ stop_signal =>
             /\ \A w \in Workers : w_pc[w] = "loop" => w_pc'[w] # "collect"
             /\ main_pc = "loop" => main_pc' # "drain" ]_vars

\* The flag was set while workers were cycling, and all loops have ended.
C2_Witness ==
    /\ stop_signal
    /\ thread_count = MaxThreads
    /\ LoopsExited
    /\ main_pc = "done"
    /\ \A w \in Workers : Spawned(w) => batch_count[w] > 0

\* C3: no snapshot with total_events = 0 is ever placed on the metrics
\* channel, whatever the batch size.
C3_NoEmptySnapshotSent ==
    \A w \in Workers :
        \A i \in DOMAIN sent[w] : sent[w][i].m.total_events > 0

\* C4: flush cadence.  A worker has flushed periodically once per completed
\* multiple of 10 cycles and at no other cycle; the k-th periodic snapshot is
\* the sum of batches 10(k-1)+1 .. 10k; and right after the flush the
\* accumulator is the empty snapshot.
C4_FlushCadence ==
    \A w \in Workers :
        Spawned(w) =>
            LET P == SentOfKind(w, "periodic")
            IN /\ Len(P) = batch_count[w] \div 10
               /\ \A k \in DOMAIN P :
                     /\ sent[w][k] = P[k]
                     /\ P[k].cycle = 10 * k
                     /\ Counters(P[k].m) =
                            SumRange(batches[w], 10 * (k - 1) + 1, 10 * k)
               /\ ( /\ w_pc[w] = "loop"
                    /\ batch_count[w] > 0
                    /\ batch_count[w] % 10 = 0 )
                  => thread_metrics[w] = DefaultMetrics

\* A worker that flushed twice, the second time a snapshot holding events.
C4_Witness ==
    \E w \in Workers :
        LET P == SentOfKind(w, "periodic")
        IN /\ Len(P) = 2
           /\ P[2].m.total_events > 0
           /\ P[2].m # P[1].m

\* C5: residual flush.  A worker that has not terminated has sent no
\* residual; a terminated worker has sent exactly one, its accumulator, as
\* its last send if the batches since its last periodic flush hold events,
\* and none otherwise; its sends are its periodic flushes and that residual,
\* so it has sent nothing after terminating.
C5_ResidualFlush ==
    \A w \in Workers :
        Spawned(w) =>
            LET R == SentOfKind(w, "residual")
            IN IF w_pc[w] = "done"
               THEN /\ Len(sent[w]) = (batch_count[w] \div 10) + Len(R)
                    /\ IF PendingSum(w).total_events > 0
                       THEN /\ Len(R) = 1
                            /\ Last(sent[w]) = R[1]
                            /\ R[1].m = thread_metrics[w]
                            /\ Counters(R[1].m) = PendingSum(w)
                       ELSE Len(R) = 0
               ELSE Len(R) = 0

\* Two terminated workers: one sent a residual, the other found the flag set
\* on entry and sent nothing.
C5_Witness ==
    /\ \A w \in Workers : Spawned(w) => w_pc[w] = "done"
    /\ \E w \in Workers : Len(SentOfKind(w, "residual")) = 1
    /\ \E w \in Workers :
          Spawned(w) /\ batch_count[w] = 0 /\ sent[w] = << >>

\* C6: merge is associative and commutative on the counters and the
\* distributions: the three groupings of three snapshots all give their
\* element-wise sum.
C6_MergeAssocComm ==
    op_pc = "merged" =>
        LET sum == AddCounters(AddCounters(Counters(op_in[1]),
                                           Counters(op_in[2])),
                               Counters(op_in[3]))
        IN /\ Counters(op_out[1]) = sum
           /\ Counters(op_out[2]) = sum
           /\ Counters(op_out[3]) = sum

\* Three different non-empty snapshots have been merged.
C6_Witness ==
    /\ op_pc = "merged"
    /\ op_in[1] # op_in[2] /\ op_in[2] # op_in[3] /\ op_in[1] # op_in[3]
    /\ \A i \in 1 .. 3 : op_in[i].high_risk_count > 0 \/ op_in[i].low_risk_count > 0
    /\ \E i \in 1 .. 3 : op_in[i].high_risk_count > 0

History(m) == << m.historical_rates, m.historical_violations, m.processing_rate >>

\* C7: merge never touches the historical series.  Every worker accumulator,
\* every snapshot on the metrics channel and metrics_since_last have empty
\* series; and a step changes the series or the processing rate of
\* total_metrics only if it is a reporting tick, so no merge does.
C7_MergeKeepsHistory ==
    /\ [] ( /\ \A w \in Workers : HistoryEmpty(thread_metrics[w])
            /\ \A i \in DOMAIN metrics_chan : HistoryEmpty(metrics_chan[i])
            /\ HistoryEmpty(metrics_since_last) )
    /\ [][ History(total_metrics') # History(total_metrics)
             => Len(tick_log') = Len(tick_log) + 1 ]_vars

\* The aggregator merged a snapshot into a total that already has history.
C7_Witness ==
    /\ total_metrics.historical_rates # << >>
    /\ Len(recv_log) > tick_mark
    /\ Last(recv_log).total_events > 0

\* C8: windowing bound.  After any number of appends each series has length
\* min(appends, 30) and holds the most recently appended values in append
\* order.
C8_WindowingBound ==
    LET rates == [i \in DOMAIN op_in |-> op_in[i].rate]
        viols == [i \in DOMAIN op_in |-> op_in[i].violations]
    IN /\ Len(op_out.historical_rates) = Min(Len(op_in), 30)
       /\ Len(op_out.historical_violations) = Min(Len(op_in), 30)
       /\ op_out.historical_rates = LastN(rates, 30)
       /\ op_out.historical_violations = LastN(viols, 30)

\* More than 30 appends of differing values: the oldest were evicted.
C8_Witness ==
    /\ Len(op_in) > 30
    /\ op_in[1] # op_in[Len(op_in)]
    /\ op_in[Len(op_in) - 1].rate # op_in[Len(op_in)].rate

\* C9: aggregator accounting.  total_metrics is the element-wise sum of every
\* snapshot received, metrics_since_last that of the snapshots received since
\* the last reporting tick, and metrics_since_last exceeds total_metrics in
\* no counter.
C9_AggregatorAccounting ==
    /\ Counters(total_metrics) = SumAll(recv_log)
    /\ Counters(metrics_since_last) =
           SumRange(recv_log, tick_mark + 1, Len(recv_log))
    /\ CountersLeq(Counters(metrics_since_last), Counters(total_metrics))

\* Snapshots were received before and after a reporting tick.
C9_Witness ==
    /\ tick_mark >= 1
    /\ Len(recv_log) > tick_mark
    /\ metrics_since_last.total_events > 0
    /\ metrics_since_last.total_events < total_metrics.total_events

\* C10: reporting tick.  The step that performs a tick appends one entry to
\* each series of total_metrics, the throughput being computed from
\* metrics_since_last.total_events as it was before the reset; it hands one
\* command carrying the updated total_metrics to cmd_sender.send (queued if
\* the receiver lives); it resets metrics_since_last; and it changes no
\* counter or distribution of total_metrics.
C10_ReportingTick ==
    [][ Len(tick_log') = Len(tick_log) + 1 =>
          LET tick == Last(tick_log')
          IN /\ total_metrics'.historical_rates =
                    LastN(Append(total_metrics.historical_rates,
                                 Ratio(metrics_since_last.total_events,
                                       tick.elapsed)), 30)
             /\ total_metrics'.historical_violations =
                    LastN(Append(total_metrics.historical_violations,
                                 << total_metrics.eu_act_violations,
                                    total_metrics.gdpr_violations,
                                    total_metrics.internal_violations >>), 30)
             /\ Counters(total_metrics') = Counters(total_metrics)
             /\ metrics_since_last' = DefaultMetrics
             /\ tick.payload = total_metrics'
             /\ cmd_chan' = IF cmd_rx_alive
                            THEN Append(cmd_chan, total_metrics')
                            ELSE cmd_chan ]_vars

\* A tick that reported events and whose command was queued.
C10_Witness ==
    /\ tick_log # << >>
    /\ Last(tick_log).processed > 0
    /\ Last(tick_log).delivered
    /\ cmd_chan # << >>
    /\ Last(cmd_chan).historical_rates # << >>

\* The events in all the snapshots worker w handed to the channel.
SentEvents(w) == SumAll(SentSnapshots(w)).total_events

\* The events in all the snapshots all workers handed to the channel.
AllSentEvents ==
    LET upto[k \in 0 .. MaxThreads] ==
            IF k = 0 THEN 0 ELSE upto[k - 1] + SentEvents(k)
    IN upto[MaxThreads]

\* main has seen the flag set at its loop test, or is past the loop.
AggLoopLeft ==
    \/ main_pc \in {"join_dashboard", "join_workers", "done"}
    \/ main_pc = "loop" /\ stop_signal

\* C11: no final drain.  Once the aggregation loop finds the flag set it does
\* not drain again: from then on no step receives from the metrics channel or
\* changes total_metrics, and what workers send afterwards stays queued.
C11_NoFinalDrain ==
    [][ AggLoopLeft =>
          /\ main_pc' # "drain"
          /\ total_metrics' = total_metrics
          /\ recv_log' = recv_log
          /\ Len(metrics_chan') >= Len(metrics_chan)
          /\ SubSeq(metrics_chan', 1, Len(metrics_chan)) = metrics_chan ]_vars

\* Shutdown is complete, a residual flush is still queued and total_metrics
\* holds fewer events than the workers sent.
C11_Witness ==
    /\ main_pc = "done"
    /\ metrics_chan # << >>
    /\ \E w \in Workers :
          /\ Len(SentOfKind(w, "residual")) = 1
          /\ Last(sent[w]).m = Last(metrics_chan)
    /\ total_metrics.total_events > 0
    /\ total_metrics.total_events < AllSentEvents

\* Whether bit mask is set in register x.
HasBit(x, mask) == BitAnd(x, mask) # 0

\* C12: the compliance register after the chain.  Whatever the register held
\* before, after the three compliance systems the EU-Act bit is clear iff
\* vendor = 0 and sensitivity > 70, the GDPR bit is set iff sensitivity < 50,
\* the Internal-Policy bit is clear iff department = 2 and the service is
\* not 1 or 3; nothing else of the entity has changed.
C12_ComplianceRegister ==
    op_pc \in {"internal", "risk", "collected", "merged"} =>
        LET e == op_out.world[1]
        IN /\ ~HasBit(e.flags, EU_ACT_COMPLIANT)
                 <=> (op_in.vendor_idx = 0 /\ op_in.data_sensitivity > 70)
           /\ HasBit(e.flags, GDPR_COMPLIANT) <=> op_in.data_sensitivity < 50
           /\ ~HasBit(e.flags, INTERNAL_POLICY_COMPLIANT)
                 <=> (op_in.department_idx = 2 /\ op_in.name_idx \notin {1, 3})
           /\ e.flags \in 0 .. 7
           /\ [e EXCEPT !.flags = op_in.flags, !.risk = None] = op_in

\* The three systems have run on a register in which they changed every bit.
C12_Witness ==
    /\ op_pc = "internal"
    /\ op_in.flags = GDPR_COMPLIANT
    /\ op_out.world[1].flags = EU_ACT_COMPLIANT + INTERNAL_POLICY_COMPLIANT

\* 1 if the condition holds, else 0.
Ind(cond) == IF cond THEN 1 ELSE 0

\* C13: the result of the risk stage.  The score is min(100, 40*[EU-Act bit
\* clear] + 30*[GDPR bit clear] + 20*[Internal bit clear] + 10*[sensitivity >
\* 80] + 5*[vendor = 0]) on the register left by the three compliance
\* systems, the factor bits are exactly the contributors that fired, the
\* score lies in 0..100, and vendor 0 with sensitivity 85 outside department
\* 2 gives score 85 with factors EU_ACT, GDPR, SENSITIVE_DATA, PUBLIC_MODEL.
C13_RiskStage ==
    op_pc \in {"risk", "collected", "merged"} =>
        LET e == op_out.world[1]
            eu == ~HasBit(e.flags, EU_ACT_COMPLIANT)
            gd == ~HasBit(e.flags, GDPR_COMPLIANT)
            ip == ~HasBit(e.flags, INTERNAL_POLICY_COMPLIANT)
            sd == e.data_sensitivity > 80
            pm == e.vendor_idx = 0
        IN /\ e.risk # None
           /\ e.risk.score = Min(100, 40 * Ind(eu) + 30 * Ind(gd) + 20 * Ind(ip)
                                       + 10 * Ind(sd) + 5 * Ind(pm))
           /\ e.risk.score \in 0 .. 100
           /\ e.risk.factor_flags \in 0 .. 31
           /\ HasBit(e.risk.factor_flags, RISK_EU_ACT) <=> eu
           /\ HasBit(e.risk.factor_flags, RISK_GDPR) <=> gd
           /\ HasBit(e.risk.factor_flags, RISK_INTERNAL) <=> ip
           /\ HasBit(e.risk.factor_flags, RISK_SENSITIVE_DATA) <=> sd
           /\ HasBit(e.risk.factor_flags, RISK_PUBLIC_MODEL) <=> pm
           /\ ( /\ op_in.vendor_idx = 0
                /\ op_in.data_sensitivity = 85
                /\ op_in.department_idx # 2 )
              => /\ e.risk.score = 85
                 /\ e.risk.factor_flags =
                       RISK_EU_ACT + RISK_GDPR + RISK_SENSITIVE_DATA
                       + RISK_PUBLIC_MODEL

\* The risk stage has run on an entity on which all five contributors fire,
\* so that the sum 105 was clamped.
C13_Witness ==
    /\ op_pc = "risk"
    /\ op_in.flags = 7
    /\ op_out.world[1].risk # None
    /\ op_out.world[1].risk.factor_flags = 31
    /\ op_out.world[1].risk.score = 100

\* The worker has run all four systems on the batch it holds.
ChainDone(w) == w_pc[w] = "collect"

\* C14: an entity carries a risk value iff the four systems have all run on
\* it; the world the collector reads holds the whole batch, every entity
\* with a risk value, also when the flag was set during the cycle; so every
\* collected event was put into a tier.
C14_RiskIffChainRan ==
    \A w \in Workers :
        Spawned(w) =>
            /\ \A i \in DOMAIN world[w] :
                  world[w][i].risk # None <=> ChainDone(w)
            /\ ChainDone(w) => Len(world[w]) = events_per_batch
            /\ \A k \in DOMAIN batches[w] :
                  /\ batches[w][k].total_events = events_per_batch
                  /\ batches[w][k].high_risk_count
                       + batches[w][k].medium_risk_count
                       + batches[w][k].low_risk_count
                         = batches[w][k].total_events

\* The flag was set while the worker was inside a cycle, and the batch in
\* front of the collector is fully evaluated.
C14_Witness ==
    \E w \in Workers :
        /\ stop_signal
        /\ ChainDone(w)
        /\ batch_count[w] >= 1
        /\ Len(world[w]) = MaxRateHundreds
        /\ \A i \in DOMAIN world[w] : world[w][i].risk # None
        /\ \E i \in DOMAIN world[w] : world[w][i].flags = 7

\* The three tier counts of a snapshot.
TierCounts(m) == << m.high_risk_count, m.medium_risk_count, m.low_risk_count >>

\* C15: tier classification.  The collector puts an entity with a risk value
\* into exactly one tier: high iff score > 70, medium iff 31 <= score <= 70,
\* low iff score <= 30; so the tiers of the snapshot sum to total_events, and
\* so do those of the result of merging it into an accumulator.
C15_TierClassification ==
    op_pc \in {"collected", "merged"} =>
        LET score == op_out.world[1].risk.score
            snap == op_out.snapshot
        IN /\ snap.total_events = 1
           /\ TierCounts(snap) =
                 IF score > 70 THEN << 1, 0, 0 >>
                 ELSE IF score >= 31 /\ score <= 70 THEN << 0, 1, 0 >>
                 ELSE << 0, 0, 1 >>
           /\ score <= 30 <=> snap.low_risk_count = 1
           /\ op_pc = "merged" =>
                 op_out.merged.high_risk_count + op_out.merged.medium_risk_count
                   + op_out.merged.low_risk_count = op_out.merged.total_events

\* An entity scored exactly 30 was collected as low and merged into an
\* accumulator that already held events.
C15_Witness ==
    /\ op_pc = "merged"
    /\ op_out.world[1].risk.score = 30
    /\ op_out.snapshot.low_risk_count = 1
    /\ op_out.merged.total_events > 1
    /\ op_out.merged.high_risk_count > 0

\* The sum of the five buckets of a distribution.
Sum5(arr) ==
    LET upto[k \in Idx \cup {-1}] == IF k = -1 THEN 0 ELSE upto[k - 1] + arr[k]
    IN upto[4]

\* How many of the five factor bits are set.
FactorBits(flags) ==
    Ind(HasBit(flags, RISK_EU_ACT)) + Ind(HasBit(flags, RISK_GDPR))
    + Ind(HasBit(flags, RISK_INTERNAL)) + Ind(HasBit(flags, RISK_SENSITIVE_DATA))
    + Ind(HasBit(flags, RISK_PUBLIC_MODEL))

\* The factor bits set on the entities wd[1 .. n].
RECURSIVE FactorBitsOf(_, _)
FactorBitsOf(wd, n) ==
    IF n = 0 THEN 0 ELSE FactorBitsOf(wd, n - 1) + FactorBits(wd[n].risk.factor_flags)

\* C16 as stated: every batch snapshot has total_events = N and each of its
\* four distributions sums to N.
C16_AllFourSumToN ==
    \A w \in Workers :
        \A k \in DOMAIN batches[w] :
            LET b == batches[w][k]
            IN /\ b.total_events = events_per_batch
               /\ Sum5(b.service_counts) = b.total_events
               /\ Sum5(b.vendor_counts) = b.total_events
               /\ Sum5(b.department_counts) = b.total_events
               /\ Sum5(b.risk_factor_counts) = b.total_events

\* C16, amended: the snapshot collected from a fully processed batch of N
\* events has total_events = N and service, vendor and department
\* distributions that each sum to N; its risk-factor distribution sums to
\* the number of factor bits set on the N events, between 0 and 5N.
C16_BatchSnapshot ==
    [][ \A w \in Workers :
          Len(batches'[w]) = Len(batches[w]) + 1 =>
              LET b == Last(batches'[w])
                  N == Len(world[w])
              IN /\ N = events_per_batch
                 /\ b.total_events = N
                 /\ Sum5(b.service_counts) = N
                 /\ Sum5(b.vendor_counts) = N
                 /\ Sum5(b.department_counts) = N
                 /\ Sum5(b.risk_factor_counts) = FactorBitsOf(world[w], N)
                 /\ Sum5(b.risk_factor_counts) \in 0 .. 5 * N ]_vars

\* Full batches were collected whose risk-factor distribution sums to more,
\* and to less, than the number of events.
C16_Witness ==
    \E w \in Workers :
        /\ \E k \in DOMAIN batches[w] :
              /\ batches[w][k].total_events = MaxRateHundreds
              /\ Sum5(batches[w][k].risk_factor_counts) > MaxRateHundreds
        /\ \E k \in DOMAIN batches[w] :
              /\ batches[w][k].total_events = MaxRateHundreds
              /\ Sum5(batches[w][k].risk_factor_counts) < MaxRateHundreds

\* C17: stop flag monotonicity.  The flag is false until main has started;
\* no step of any thread takes it from true to false, whoever stores to it and
\* however often.
C17_StopMonotonic ==
    /\ [] (main_pc = "start" => ~stop_signal)
    /\ [][ stop_signal => stop_signal' ]_vars

\* The flag was stored by the quit key and is still set when shutdown is
\* complete.
C17_Witness ==
    /\ stop_signal
    /\ should_quit
    /\ dash_pc = "done"
    /\ main_pc = "done"

\* Worker w is about to end a 10th cycle while the receiver is gone.
FlushWillFail(w) ==
    /\ w_pc[w] = "collect"
    /\ FlushDue(batch_count[w] + 1)
    /\ ~metrics_rx_alive

\* C18: best-effort send.  A periodic send that fails because the receiver is
\* gone queues nothing, still resets the accumulator, and leaves the worker
\* at its loop test; the worker leaves the loop only when it finds the flag
\* set; a failing residual send queues nothing and the worker ends.
C18_BestEffortSend ==
    [][ \A w \in Workers :
          /\ (FlushWillFail(w) /\ w_pc'[w] # w_pc[w]) =>
                 /\ metrics_chan' = metrics_chan
                 /\ thread_metrics'[w] = DefaultMetrics
                 /\ batch_count'[w] = batch_count[w] + 1
                 /\ w_pc'[w] = "loop"
          /\ (w_pc[w] = "loop" /\ w_pc'[w] # "loop") =>
                 w_pc'[w] = IF stop_signal THEN "residual" ELSE "eu"
          /\ w_pc'[w] = "residual" => stop_signal
          /\ (w_pc[w] = "residual" /\ w_pc'[w] # "residual") =>
                 /\ w_pc'[w] = "done"
                 /\ ~metrics_rx_alive => metrics_chan' = metrics_chan ]_vars

\* A worker whose periodic send failed went on cycling, found the flag set
\* later and has ended.
C18_Witness ==
    \E w \in Workers :
        /\ w_pc[w] = "done"
        /\ \E i \in DOMAIN sent[w] :
              /\ sent[w][i].kind = "periodic"
              /\ ~sent[w][i].ok
              /\ sent[w][i].m.total_events > 0
              /\ batch_count[w] > sent[w][i].cycle
        /\ Last(sent[w]).kind = "residual"
        /\ ~Last(sent[w]).ok

\* main has spawned its workers.
WorkersStarted == main_pc \in {"loop", "drain", "join_dashboard", "join_workers", "done"}

\* C19: batch size.  Every batch has the size (rate / thread_count) / 100 and,
\* whatever configuration the workers were started with, that size is at
\* least 1.
C19_BatchSizeAtLeastOne ==
    WorkersStarted =>
        /\ events_per_batch = (rate \div thread_count) \div 100
        /\ \A w \in Workers :
              \A k \in DOMAIN batches[w] :
                  batches[w][k].total_events = events_per_batch
        /\ events_per_batch >= 1

\* C20: a worker count of 0 fails fast.  With thread_count = 0 the first step
\* of main ends in the error state: no worker and no dashboard thread was
\* spawned, nothing was sent or received and the aggregation loop never ran.
C20_ZeroWorkersFailFast ==
    (thread_count = 0 /\ main_pc # "start") =>
        /\ main_pc = "panicked"
        /\ \A w \in Workers :
              /\ w_pc[w] = "unspawned"
              /\ batch_count[w] = 0
              /\ sent[w] = << >>
        /\ dash_pc = "unspawned"
        /\ metrics_chan = << >>
        /\ cmd_chan = << >>
        /\ recv_log = << >>
        /\ tick_log = << >>
        /\ total_metrics = DefaultMetrics

\* main was started with a worker count of 0 and has failed.
C20_Witness ==
    /\ thread_count = 0
    /\ main_pc = "panicked"

\* The violations of the three rules counted in a snapshot.
ViolationCount(m) ==
    m.eu_act_violations + m.gdpr_violations + m.internal_violations

\* C21: compliance_percentage is exactly 100 for a snapshot without events
\* and otherwise the fraction 100 * (1 - violations / (3 * total_events)); 10
\* events with 3 violations give 90.
C21_CompliancePercentage ==
    op_pc = "computed" =>
        LET t == op_in.total_events
            v == ViolationCount(op_in)
        IN /\ t = 0 => op_out = <<100, 1>>
           /\ t > 0 =>
                 /\ op_out[2] > 0
                 /\ op_out[1] * 3 * t = op_out[2] * 100 * (3 * t - v)
           /\ (t = 10 /\ v = 3) => op_out = <<90, 1>>

\* The percentage of 10 events with 3 violations, spread over two rules, was
\* computed.
C21_Witness ==
    /\ op_pc = "computed"
    /\ op_in.total_events = 10
    /\ op_in.eu_act_violations = 1
    /\ op_in.gdpr_violations = 2
    /\ op_in.internal_violations = 0
    /\ op_out = <<90, 1>>

\* main is past its aggregation loop.
AggExited == main_pc \in {"join_dashboard", "join_workers", "done"}

\* Worker w is past its loop.
WorkerExited(w) == w_pc[w] \in {"residual", "done"}

\* C22 as stated: the loops end in a fixed order, the dashboard loop before
\* the aggregation loop and the aggregation loop before every worker loop.
C22_StrictOrder ==
    /\ AggExited => dash_pc = "done"
    /\ \A w \in Workers : WorkerExited(w) => AggExited

\* C22, amended: every loop ends only after the flag is set, each at its own
\* next test and in no fixed order among them; a worker that has ended has
\* flushed what its accumulator held; main joins the dashboard thread before
\* the workers and completes shutdown only when the dashboard thread and
\* every worker have ended.
C22_ShutdownOrder ==
    /\ (dash_pc = "done" \/ AggExited) => stop_signal
    /\ \A w \in Workers : WorkerExited(w) => stop_signal
    /\ \A w \in Workers :
          (w_pc[w] = "done" /\ PendingSum(w).total_events > 0) =>
              /\ Last(sent[w]).kind = "residual"
              /\ Counters(Last(sent[w]).m) = PendingSum(w)
    /\ main_pc \in {"join_workers", "done"} => dash_pc = "done"
    /\ main_pc = "done" =>
          \A w \in Workers : Spawned(w) => w_pc[w] = "done"

\* Shutdown is complete after all workers ran cycles and one of them flushed
\* a residual.
C22_Witness ==
    /\ main_pc = "done"
    /\ thread_count = MaxThreads
    /\ \A w \in Workers : batch_count[w] > 0
    /\ \E w \in Workers : Len(SentOfKind(w, "residual")) = 1

\* The counters of the received snapshots of op_in, summed in index order.
ReceivedSum ==
    SumAll([ i \in 1 .. 3 |->
               IF i \in Received THEN op_in[i] ELSE DefaultMetrics ])

\* C23: whatever the order in which the snapshots are received and wherever
\* the reporting ticks fall between them, the counters and distributions of
\* the aggregator's total are the sum over the set of snapshots received, a
\* value that does not depend on the order or the grouping.
C23_OrderIndependence ==
    op_pc = "draining" => Counters(op_out.total) = ReceivedSum

\* Three different non-empty snapshots were received last-first, with one
\* reporting tick after the first and another after the second.
C23_Witness ==
    /\ op_pc = "draining"
    /\ op_out.order = << 3, 1, 2 >>
    /\ op_out.marks = << 1, 2 >>
    /\ op_in[1] # op_in[2] /\ op_in[2] # op_in[3] /\ op_in[1] # op_in[3]
    /\ \A i \in 1 .. 3 : op_in[i].total_events > 0

\* C24: running the risk stage again on an evaluated batch attaches the same
\* assessment, and running the whole chain again leaves every register and
\* every assessment as the first pass left them.
C24_RiskIdempotent ==
    op_pc \in {"risk_again", "chain_again"} =>
        /\ op_out.first = RuleChain(<< op_in >>)
        /\ op_out.world = op_out.first

\* The chain ran twice on an entity whose prior register differed from the
\* evaluated one and whose score is not zero.
C24_Witness ==
    /\ op_pc = "chain_again"
    /\ op_in.flags # op_out.world[1].flags
    /\ op_out.world[1].risk # None
    /\ op_out.world[1].risk.score > 0

\* C25: for an entity without a risk value the collector adds one to
\* total_events, to the entity's service, vendor and department buckets and
\* to the sample count, adds the sensitivity to the sensitivity sum, and adds
\* one to each violation counter whose bit is clear in the register; it adds
\* nothing to a tier count or to a risk-factor counter.
C25_CollectWithoutRisk ==
    op_pc = "collected_early" =>
        LET e == op_out.world[1]
            s == op_out.snapshot
        IN /\ e.risk = None
           /\ s.total_events = 1
           /\ s.service_counts = Bump(Zero5, e.name_idx)
           /\ s.vendor_counts = Bump(Zero5, e.vendor_idx)
           /\ s.department_counts = Bump(Zero5, e.department_idx)
           /\ s.total_data_sensitivity = e.data_sensitivity
           /\ s.data_sensitivity_samples = 1
           /\ s.eu_act_violations = Ind(~HasBit(e.flags, EU_ACT_COMPLIANT))
           /\ s.gdpr_violations = Ind(~HasBit(e.flags, GDPR_COMPLIANT))
           /\ s.internal_violations =
                  Ind(~HasBit(e.flags, INTERNAL_POLICY_COMPLIANT))
           /\ TierCounts(s) = << 0, 0, 0 >>
           /\ s.risk_factor_counts = Zero5

\* An entity without a risk value, violating two rules, has been collected.
C25_Witness ==
    /\ op_pc = "collected_early"
    /\ op_out.world[1].risk = None
    /\ op_out.snapshot.eu_act_violations = 1
    /\ op_out.snapshot.gdpr_violations = 1
    /\ op_out.snapshot.internal_violations = 0
    /\ op_out.snapshot.total_data_sensitivity > 0

\* The harness entity has been through the whole chain, once.
RulesEvaluated == op_pc \in {"risk", "collected", "merged"}

\* C26: after the chain an entity's score is above 70 iff its EU-Act bit is
\* clear: at least 75 with the bit clear, at most 60 with it set.  Hence
\* high_risk_count = eu_act_violations in the snapshot of the batch and in
\* an accumulator the snapshot is merged into.
C26_HighIffEuViolation ==
    /\ RulesEvaluated =>
          LET e == op_out.world[1]
          IN /\ (e.risk.score > 70) <=> ~HasBit(e.flags, EU_ACT_COMPLIANT)
             /\ ~HasBit(e.flags, EU_ACT_COMPLIANT) => e.risk.score >= 75
             /\ HasBit(e.flags, EU_ACT_COMPLIANT) => e.risk.score <= 60
    /\ op_pc \in {"collected", "merged"} =>
          op_out.snapshot.high_risk_count = op_out.snapshot.eu_act_violations
    /\ op_pc = "merged" =>
          op_out.merged.high_risk_count = op_out.merged.eu_act_violations

\* An EU-Act violation scoring exactly 75 has been merged into an
\* accumulator that already held events.
C26_Witness ==
    /\ op_pc = "merged"
    /\ op_out.world[1].risk.score = 75
    /\ op_out.snapshot.high_risk_count = 1
    /\ op_out.merged.total_events > 1


\* Every snapshot the pipeline holds: the batch snapshots, the workers'
\* accumulators, the snapshots in the channel, the aggregator's two
\* accumulators, the copies sent to the dashboard and the one it shows.
PipelineSnapshots ==
    { total_metrics, metrics_since_last, dash_metrics }
    \cup { thread_metrics[w] : w \in Workers }
    \cup { metrics_chan[k] : k \in DOMAIN metrics_chan }
    \cup { cmd_chan[k] : k \in DOMAIN cmd_chan }
    \cup UNION { { batches[w][k] : k \in DOMAIN batches[w] } : w \in Workers }

\* C27: in every snapshot of the pipeline the first three risk-factor
\* counters equal the three violation counters: risk_factor_counts[0] =
\* eu_act_violations, [1] = gdpr_violations, [2] = internal_violations.
C27_FactorsMirrorViolations ==
    \A m \in PipelineSnapshots :
        /\ m.risk_factor_counts[0] = m.eu_act_violations
        /\ m.risk_factor_counts[1] = m.gdpr_violations
        /\ m.risk_factor_counts[2] = m.internal_violations

\* The aggregator's total holds events of all three kinds of violation and at
\* least one event without GDPR violation, and the dashboard shows a total
\* with violations.
C27_Witness ==
    /\ total_metrics.eu_act_violations > 0
    /\ total_metrics.internal_violations > 0
    /\ total_metrics.gdpr_violations > 0
    /\ total_metrics.gdpr_violations < total_metrics.total_events
    /\ dash_metrics.gdpr_violations > 0

\* C28: each compliance system writes only its own bit of the register and
\* leaves the other bits and the service and usage fields as they were, so
\* calling the three in any order on any initial register yields the
\* register that the order of the worker loop yields.
C28_StagesIndependent ==
    op_pc = "any_order" =>
        LET e == op_out.world[1]
            inOrder == internal_policy_system(gdpr_system(
                           eu_ai_act_system(<< op_in >>)))[1]
        IN /\ [e EXCEPT !.flags = op_in.flags] = op_in
           /\ \A name \in ComplianceSystems :
                 HasBit(e.flags, SystemBit(name)) =
                     IF name \in op_out.ran
                     THEN HasBit(inOrder.flags, SystemBit(name))
                     ELSE HasBit(op_in.flags, SystemBit(name))
           /\ op_out.ran = ComplianceSystems => e = inOrder

\* Internal policy ran first and the EU-Act system second, GDPR not yet, on
\* a register of which every written bit differs from its prior value.
C28_Witness ==
    /\ op_pc = "any_order"
    /\ op_out.ran = {"internal", "eu"}
    /\ op_in.flags = GDPR_COMPLIANT
    /\ op_out.world[1].flags =
           EU_ACT_COMPLIANT + GDPR_COMPLIANT + INTERNAL_POLICY_COMPLIANT

\* The worker is at its loop test or past the loop.
BetweenCycles(w) == w_pc[w] \in {"loop", "residual", "done"}

\* total_events summed over the first n batch snapshots of worker w.
RECURSIVE BatchEvents(_, _)
BatchEvents(w, n) ==
    IF n = 0 THEN 0 ELSE BatchEvents(w, n - 1) + batches[w][n].total_events

\* C29: the world is empty whenever a cycle starts, a cycle after a flushing
\* cycle included, so inside a cycle it holds exactly the batch generated in
\* that cycle, each batch snapshot has total_events equal to the batch size,
\* and the snapshots together count every event generated exactly once.
C29_CountedOnce ==
    \A w \in Workers :
        Spawned(w) =>
            /\ BetweenCycles(w) => world[w] = << >>
            /\ ~BetweenCycles(w) => Len(world[w]) = events_per_batch
            /\ Len(batches[w]) = batch_count[w]
            /\ \A k \in DOMAIN batches[w] :
                  batches[w][k].total_events = events_per_batch
            /\ BatchEvents(w, Len(batches[w])) = batch_count[w] * events_per_batch

\* The cycle after a flushing cycle has collected a full batch.
C29_Witness ==
    \E w \in Workers :
        /\ batch_count[w] = FlushEvery + 1
        /\ Len(SentOfKind(w, "periodic")) = 1
        /\ events_per_batch = MaxRateHundreds
        /\ batches[w][FlushEvery + 1].total_events = MaxRateHundreds
        /\ w_pc[w] = "loop"

\* The events collected so far by all workers.
RECURSIVE CollectedEvents(_)
CollectedEvents(n) ==
    IF n = 0 THEN 0
    ELSE CollectedEvents(n - 1) + BatchEvents(n, Len(batches[n]))

\* C30: the aggregator's total never counts more events than the workers
\* have collected so far, and total_events of the totals carried by
\* successive UpdateMetrics commands never decreases; the dashboard, which
\* replaces its snapshot by the command's, never shows more than the total.
C30_AtMostOnce ==
    /\ total_metrics.total_events <= CollectedEvents(MaxThreads)
    /\ \A k \in 1 .. (Len(tick_log) - 1) :
          tick_log[k].payload.total_events <= tick_log[k + 1].payload.total_events
    /\ \A k \in DOMAIN tick_log :
          tick_log[k].payload.total_events <= total_metrics.total_events
    /\ dash_metrics.total_events <= total_metrics.total_events

\* Two commands were sent, the second carrying more events than the first
\* and shown by the dashboard, while a worker holds collected events that
\* the aggregator has not received.
C30_Witness ==
    /\ Len(tick_log) = 2
    /\ tick_log[1].payload.total_events < tick_log[2].payload.total_events
    /\ total_metrics.total_events < CollectedEvents(MaxThreads)
    /\ dash_metrics.total_events > 0

\* The (eu, gdpr, internal) violation counters of a metrics value or of a
\* Counters record.
ViolationTriple(m) ==
    << m.eu_act_violations, m.gdpr_violations, m.internal_violations >>

\* Every value of the aggregator's total the program holds: the total itself,
\* the copies sent at the ticks, those still queued for the dashboard and
\* the one the dashboard shows.
TotalCopies ==
    { total_metrics, dash_metrics }
    \cup { cmd_chan[k] : k \in DOMAIN cmd_chan }
    \cup { tick_log[k].payload : k \in DOMAIN tick_log }

\* C31: the violation history is cumulative.  The entry appended at a tick is
\* the violation triple summed over every snapshot received up to that tick,
\* not over those of the interval; so successive entries never decrease in
\* any component, and the throughput series and the violation series are of
\* equal length in every copy of the total.
C31_CumulativeHistory ==
    /\ \A m \in TotalCopies :
          LET hv == m.historical_violations
          IN /\ Len(m.historical_rates) = Len(hv)
             /\ \A k \in 1 .. (Len(hv) - 1) :
                   \A i \in 1 .. 3 : hv[k][i] <= hv[k + 1][i]
             /\ hv # << >> =>
                   \A i \in 1 .. 3 : Last(hv)[i] <= ViolationTriple(m)[i]
    /\ \A k \in DOMAIN tick_log :
          LET p == tick_log[k].payload
          IN /\ Len(p.historical_violations) = k
             /\ Last(p.historical_violations) = ViolationTriple(p)
             /\ \E n \in 0 .. Len(recv_log) :
                   ViolationTriple(p) = ViolationTriple(SumRange(recv_log, 1, n))
    /\ tick_log # << >> =>
          Last(total_metrics.historical_violations) =
              ViolationTriple(SumRange(recv_log, 1, tick_mark))

\* Two ticks, each after an interval with events: in some component the
\* second entry, the lifetime count, is larger than the first, which is not
\* zero; the second tick reported fewer events for its interval than the
\* total holds; and the dashboard shows both entries.
C31_Witness ==
    /\ Len(tick_log) = 2
    /\ Len(dash_metrics.historical_violations) = 2
    /\ tick_log[2].processed > 0
    /\ tick_log[2].processed < tick_log[2].payload.total_events
    /\ LET hv == total_metrics.historical_violations
       IN \E i \in 1 .. 3 : 0 < hv[1][i] /\ hv[1][i] < hv[2][i]

=============================================================================
